---- MODULE Spec2Model ----
(***************************************************************************)
(* go-dnsproxy: the query-resolution pipeline (Proxy.Lookup) together with *)
(* the Registry, the Blacklist and the Cache it uses.                      *)
(*                                                                         *)
(* Strings are sequences of one-character strings, so that ToLower,        *)
(* TrimSpace, HasPrefix and HasSuffix are computed, not assumed.           *)
(* A Go slice is a record [nil, elems]: a nil slice and an empty non-nil   *)
(* slice are different values, as `x != nil` tells them apart.             *)
(* An error is the sequence of the parts of its message; <<>> is nil.      *)
(***************************************************************************)
EXTENDS Integers, Sequences, FiniteSets, TLC

VARIABLES
    servers,        \* Registry.servers: name -> server
    domains,        \* Blacklist.domains: set of exact names
    wildcards,      \* Blacklist.wildcards: set of suffixes
    hasCache,       \* Proxy.cache != nil
    entries,        \* Cache.entries: domain -> CacheEntry
    now,            \* the wall clock read by time.Now / time.Since
    serverIndex,    \* Proxy.serverIndex (uint32)
    useRoundRobin,  \* Proxy.useRoundRobin
    q,              \* per task: the position and the locals of its Lookup call
    rrLog,          \* the start indices handed out by lookupRoundRobin, in order
    steps,          \* number of API calls made and clock ticks so far
    noUp,           \* the names for which a Lookup found no server configured
    ret,            \* the last call made directly on a component, and its result
    lastSet,        \* per key: the time and the value of the last direct Cache.Set
    stopChan,       \* Cache.stopChan: "open" or "closed"
    sweeper,        \* the position of the cleanupLoop goroutine
    panicked,       \* the program has died of a run-time panic
    rq,             \* per task: the position and the result of its Registry call
    mu,             \* the locks of the registry, the blacklist and the cache
    srv,            \* per protocol server: the position of Start and of its listener
    port,           \* who holds the listening address: nobody, a probe or a listener
    hq              \* the request handler: the question, its position, the reply

vars == <<servers, domains, wildcards, hasCache, entries, now, serverIndex,
          useRoundRobin, q, rrLog, steps, noUp, ret, lastSet, stopChan,
          sweeper, panicked, rq, mu, srv, port, hq>>

\* the background sweep of the cache and its shutdown
loopVars == <<stopChan, sweeper, panicked>>

\* the calls made on the registry and the locks
callVars == <<rq, mu>>

\* the protocol servers in front of the proxy
srvVars == <<srv, port, hq>>

----------------------------------------------------------------------------
(* Bounds of the model *)

\* API calls (Lookup included) and ticks of the clock
MaxSteps == 5

(* Program constants *)

TTL == 1

\* a uint32 is the pair of its 16-bit halves: the value is hi * Half + lo
Half == 65536

Tasks == {"t1", "t2"}

\* the task that issues the queries of the sequential specification
Seq1 == {"t1"}

----------------------------------------------------------------------------
(* Strings *)

ToLowerChar(c) ==
    CASE c = "A" -> "a"
      [] c = "X" -> "x"
      [] OTHER -> c

ToLower(s) == [i \in 1..Len(s) |-> ToLowerChar(s[i])]

IsSpace(c) == c \in {" ", "\t", "\n", "\r"}

RECURSIVE TrimLeft(_)
TrimLeft(s) ==
    IF s # <<>> /\ IsSpace(Head(s)) THEN TrimLeft(Tail(s)) ELSE s

RECURSIVE TrimRight(_)
TrimRight(s) ==
    IF s # <<>> /\ IsSpace(s[Len(s)])
    THEN TrimRight(SubSeq(s, 1, Len(s) - 1))
    ELSE s

TrimSpace(s) == TrimRight(TrimLeft(s))

HasPrefix(s, p) == Len(s) >= Len(p) /\ SubSeq(s, 1, Len(p)) = p

HasSuffix(s, p) ==
    Len(s) >= Len(p) /\ SubSeq(s, Len(s) - Len(p) + 1, Len(s)) = p

\* strings.Contains(s, c) for a one-character c
Contains(s, c) == \E i \in 1..Len(s) : s[i] = c

\* the position of the first c in s, or Len(s) + 1
IndexByte(s, c) ==
    IF \E i \in 1..Len(s) : s[i] = c
    THEN CHOOSE i \in 1..Len(s) : s[i] = c /\ \A j \in 1..(i - 1) : s[j] # c
    ELSE Len(s) + 1

\* the position of the first space character in s, or Len(s) + 1
IndexSpace(s) ==
    IF \E i \in 1..Len(s) : IsSpace(s[i])
    THEN CHOOSE i \in 1..Len(s) :
            IsSpace(s[i]) /\ \A j \in 1..(i - 1) : ~IsSpace(s[j])
    ELSE Len(s) + 1

\* strings.Split(s, sep) for a one-character sep
RECURSIVE Split(_, _)
Split(s, sep) ==
    LET i == IndexByte(s, sep) IN
    IF i > Len(s) THEN <<s>>
    ELSE <<SubSeq(s, 1, i - 1)>> \o Split(SubSeq(s, i + 1, Len(s)), sep)

\* strings.Fields(s): the maximal runs of non-space characters
RECURSIVE Fields(_)
Fields(s) ==
    LET t == TrimLeft(s)
        i == IndexSpace(t) IN
    IF t = <<>> THEN <<>>
    ELSE <<SubSeq(t, 1, i - 1)>> \o Fields(SubSeq(t, i, Len(t)))

----------------------------------------------------------------------------
(* Slices and errors *)

NilSlice == [nil |-> TRUE, elems |-> <<>>]

Slice(s) == [nil |-> FALSE, elems |-> s]

NoErr == <<>>

ErrEmptyDomain == <<"domain cannot be empty">>

ErrInvalidWildcard(d) == <<"invalid wildcard domain", d>>

ErrNoServers == <<"no DNS servers configured">>

ErrNoServersAvailable == <<"no servers available">>

ErrLookupFailed(name) == <<"lookup failed for server", name>>

ErrAllFailed(lastErr) == <<"all DNS servers failed, last error">> \o lastErr

\* no direct call was made yet; a call fills in the fields it returns
NoRet == [op |-> "", arg |-> <<>>, err |-> NoErr, ok |-> FALSE, n |-> 0,
          ips |-> NilSlice]

\* mutant: only the IPv4 sinkhole address is returned
SinkholeV4Only == Slice(<<"0.0.0.0">>)

Sinkhole == Slice(<<"0.0.0.0", "::">>)

----------------------------------------------------------------------------
(* Inputs *)

\* the names passed to Lookup: "", "a", "A"
LookupDomains == { <<>>, <<"a">>, <<"A">> }

\* the rules passed to AddDomain / RemoveDomain: "*.a"
RuleInputs == { <<"*", ".", "a">> }

\* the servers passed to AddServer
ServerPool == { [Name |-> "s1", IPv4 |-> "1.1.1.1"],
                [Name |-> "s2", IPv4 |-> "8.8.8.8"] }

\* what net.Resolver.LookupIP can deliver on success
UpstreamAddrs == { <<>>, <<"1.2.3.4", "::1">> }

\* the address lists passed to Cache.Set by a direct caller
DirectSets == { NilSlice, Slice(<<>>), Slice(<<"9.9.9.9">>) }

----------------------------------------------------------------------------
\* an event outside the querying tasks: it leaves their calls alone
Op == steps < MaxSteps /\ steps' = steps + 1 /\ UNCHANGED <<q, rrLog, noUp, ret, lastSet, loopVars, callVars, srvVars>>

----------------------------------------------------------------------------
(* Registry *)

\* a DNSServer interface value: the nil interface, a nil *Server, or a
\* *Server that points to a server
NoServer == [Name |-> "", IPv4 |-> ""]

NilServer == [kind |-> "nil", s |-> NoServer]

NilPtrServer == [kind |-> "nilptr", s |-> NoServer]

Ptr(s) == [kind |-> "server", s |-> s]

ErrNilServer == <<"server cannot be nil">>

ErrEmptyName == <<"server name cannot be empty">>

ErrExists(name) == <<"server with name already exists", name>>

ErrNotFound(name) == <<"server with name not found", name>>

\* the values passed to AddServer: nil, a nil *Server, &Server{}, and
\* servers of which two share the name "s1"
AddInputs ==
    { NilServer, NilPtrServer, Ptr(NoServer),
      Ptr([Name |-> "s1", IPv4 |-> "1.1.1.1"]),
      Ptr([Name |-> "s1", IPv4 |-> "9.9.9.9"]),
      Ptr([Name |-> "s2", IPv4 |-> "8.8.8.8"]) }

\* the names passed to RemoveServer and GetServer
NameInputs == { "", "s1", "s2" }

\* a task that has made no call on the registry; conc tells whether the
\* call ran while a call of another task was in progress
NoCall == [pc |-> "idle", op |-> "", server |-> NilServer, name |-> "",
           err |-> NoErr, out |-> <<>>, n |-> 0, conc |-> FALSE]

\* the tasks other than t that are inside a call on the registry
Busy(t) == { u \in Tasks \ {t} : rq[u].pc \in { "wait", "held" } }

\* a sync.RWMutex that nobody holds
Unlocked == [w |-> "", r |-> {}]

\* mu.RLock() on the lock named l returns without waiting
CanRLock(l) == mu[l].w = ""

\* mu.Lock() on the lock named l returns without waiting
CanLock(l) == mu[l] = Unlocked

\* the methods that take r.mu.Lock(); the others take r.mu.RLock()
Writers == { "AddServer", "RemoveServer", "Clear" }

Perms(S) ==
    { s \in [1..Cardinality(S) -> S] :
        \A i, j \in 1..Cardinality(S) : s[i] = s[j] => i = j }

\* mutant: the iteration may miss servers
GetAllServers_Partial ==
    UNION { Perms(S) : S \in SUBSET { servers[n] : n \in DOMAIN servers } }

\* the slices GetAllServers can return: map iteration order is unspecified
GetAllServers == Perms({ servers[n] : n \in DOMAIN servers })

AddServer(server) ==
    /\ server.Name # ""
    /\ server.Name \notin DOMAIN servers
    /\ servers' = [n \in DOMAIN servers \cup {server.Name} |->
                      IF n = server.Name THEN server ELSE servers[n]]
    /\ Op
    /\ UNCHANGED <<domains, wildcards, hasCache, entries, now, serverIndex, useRoundRobin>>

RemoveServer(name) ==
    /\ name # ""
    /\ name \in DOMAIN servers
    /\ servers' = [n \in DOMAIN servers \ {name} |-> servers[n]]
    /\ Op
    /\ UNCHANGED <<domains, wildcards, hasCache, entries, now, serverIndex, useRoundRobin>>

----------------------------------------------------------------------------
(* Blacklist *)

\* mutant: a wildcard suffix matches anywhere at the end of the name
IsBlocked_Substring(domain) ==
    IF domain = <<>> THEN FALSE
    ELSE LET d == ToLower(TrimSpace(domain)) IN
         \/ d \in domains
         \/ \E suffix \in wildcards :
                HasSuffix(d, suffix) \/ d = suffix

IsBlocked(domain) ==
    IF domain = <<>> THEN FALSE
    ELSE LET d == ToLower(TrimSpace(domain)) IN
         \/ d \in domains
         \/ \E suffix \in wildcards :
                HasSuffix(d, <<".">> \o suffix) \/ d = suffix

\* the two rule sets as one value
Rules == [domains |-> domains, wildcards |-> wildcards]

\* AddDomain, lines 26-50, applied to the rule sets b: the rule sets it
\* leaves and the error it returns
AddDomainOn(b, domain) ==
    IF domain = <<>> THEN [b |-> b, err |-> ErrEmptyDomain]
    ELSE LET d == ToLower(TrimSpace(domain)) IN
         IF HasPrefix(d, <<"*", ".">>)
         THEN LET suffix == SubSeq(d, 3, Len(d)) IN
              IF suffix = <<>>
              THEN [b |-> b, err |-> ErrInvalidWildcard(d)]
              ELSE [b |-> [b EXCEPT !.wildcards = @ \cup {suffix}],
                    err |-> NoErr]
         ELSE [b |-> [b EXCEPT !.domains = @ \cup {d}], err |-> NoErr]

\* mutant: the rule is looked up as passed, not normalized
RemoveDomainOn_Raw(b, domain) ==
    IF domain = <<>> THEN [b |-> b, err |-> ErrEmptyDomain]
    ELSE IF HasPrefix(domain, <<"*", ".">>)
         THEN [b |-> [b EXCEPT !.wildcards =
                                   @ \ {SubSeq(domain, 3, Len(domain))}],
               err |-> NoErr]
         ELSE [b |-> [b EXCEPT !.domains = @ \ {domain}], err |-> NoErr]

\* mutant: the name is removed from both rule sets
RemoveDomainOn_Both(b, domain) ==
    IF domain = <<>> THEN [b |-> b, err |-> ErrEmptyDomain]
    ELSE LET d == ToLower(TrimSpace(domain))
             s == IF HasPrefix(d, <<"*", ".">>) THEN SubSeq(d, 3, Len(d))
                  ELSE d IN
         [b |-> [domains |-> b.domains \ {s}, wildcards |-> b.wildcards \ {s}],
          err |-> NoErr]

\* RemoveDomain, lines 53-72, applied to the rule sets b
RemoveDomainOn(b, domain) ==
    IF domain = <<>> THEN [b |-> b, err |-> ErrEmptyDomain]
    ELSE LET d == ToLower(TrimSpace(domain)) IN
         IF HasPrefix(d, <<"*", ".">>)
         THEN [b |-> [b EXCEPT !.wildcards = @ \ {SubSeq(d, 3, Len(d))}],
               err |-> NoErr]
         ELSE [b |-> [b EXCEPT !.domains = @ \ {d}], err |-> NoErr]

\* Count, lines 129-134
BlacklistCount == Cardinality(domains) + Cardinality(wildcards)

\* a rule is added while queries run; a call that fails changes nothing
AddDomain(domain) ==
    /\ CanLock("blacklist")
    /\ LET r == AddDomainOn(Rules, domain) IN
       /\ r.err = NoErr
       /\ domains' = r.b.domains
       /\ wildcards' = r.b.wildcards
    /\ Op
    /\ UNCHANGED <<servers, hasCache, entries, now, serverIndex, useRoundRobin>>

\* a rule is removed while queries run
RemoveDomain(domain) ==
    /\ LET r == RemoveDomainOn(Rules, domain) IN
       /\ r.err = NoErr
       /\ domains' = r.b.domains
       /\ wildcards' = r.b.wildcards
    /\ Op
    /\ UNCHANGED <<servers, hasCache, entries, now, serverIndex, useRoundRobin>>

----------------------------------------------------------------------------
(* Cache *)

\* mutant: an entry whose age equals ttl is treated as expired
Get_AtTTL(domain) ==
    IF domain \notin DOMAIN entries THEN NilSlice
    ELSE IF now - entries[domain].Timestamp >= TTL THEN NilSlice
    ELSE entries[domain].IPs

Get(domain) ==
    IF domain \notin DOMAIN entries THEN NilSlice
    ELSE IF now - entries[domain].Timestamp > TTL THEN NilSlice
    ELSE entries[domain].IPs

SetEntry(domain, ips) ==
    [d \in DOMAIN entries \cup {domain} |->
        IF d = domain THEN [IPs |-> ips, Timestamp |-> now] ELSE entries[d]]

Set(domain, ips) ==
    /\ hasCache
    /\ CanLock("cache")
    /\ entries' = SetEntry(domain, ips)
    /\ Op
    /\ UNCHANGED <<servers, domains, wildcards, hasCache, now, serverIndex, useRoundRobin>>

\* Count, lines 77-82
CacheCount == Cardinality(DOMAIN entries)

\* a loop that also deletes the entries whose age equals the ttl
Unexpired_AtTTL ==
    [d \in { k \in DOMAIN entries : ~(now - entries[k].Timestamp >= TTL) } |->
        entries[d]]

\* CleanExpired, lines 92-97: the entries the loop leaves in the map
Unexpired ==
    [d \in { k \in DOMAIN entries : ~(now - entries[k].Timestamp > TTL) } |->
        entries[d]]

CleanExpired ==
    /\ hasCache
    /\ entries' = Unexpired
    /\ Op
    /\ UNCHANGED <<servers, domains, wildcards, hasCache, now, serverIndex, useRoundRobin>>

\* time passes
Tick ==
    /\ now' = now + 1
    /\ Op
    /\ UNCHANGED <<servers, domains, wildcards, hasCache, entries, serverIndex, useRoundRobin>>

CacheClear ==
    /\ hasCache
    /\ entries' = <<>>
    /\ Op
    /\ UNCHANGED <<servers, domains, wildcards, hasCache, now, serverIndex, useRoundRobin>>

RegistryClear ==
    /\ servers' = <<>>
    /\ Op
    /\ UNCHANGED <<domains, wildcards, hasCache, entries, now, serverIndex, useRoundRobin>>

BlacklistClear ==
    /\ domains' = {}
    /\ wildcards' = {}
    /\ Op
    /\ UNCHANGED <<servers, hasCache, entries, now, serverIndex, useRoundRobin>>

----------------------------------------------------------------------------
(* Proxy *)

SetRoundRobin(enabled) ==
    /\ useRoundRobin' = enabled
    /\ Op
    /\ UNCHANGED <<servers, domains, wildcards, hasCache, entries, now,
                   serverIndex>>

Zero32 == [hi |-> 0, lo |-> 0]

\* what the cache really held for the domain when Lookup called Get
NotSeen == [present |-> FALSE, IPs |-> NilSlice, age |-> 0]

\* a task that is not inside Lookup
IdleQ ==
    [pc |-> "idle", domain |-> <<>>, blocked |-> FALSE, got |-> FALSE,
     seen |-> NotSeen, snap |-> FALSE, snapshot |-> <<>>, mode |-> "",
     cursor |-> Zero32, index |-> 0, i |-> 0, attempts |-> <<>>,
     lastErr |-> NoErr, ips |-> NilSlice, err |-> NoErr, site |-> "",
     stored |-> FALSE]

\* return ips, err from the return statement named site
Returned(rec, ips, err, site) ==
    [rec EXCEPT !.pc = "done", !.ips = ips, !.err = err, !.site = site]

\* mutant: the empty name is not rejected
Lookup_NoEmptyCheck(t, domain) ==
    /\ q[t].pc = "idle"
    /\ steps < MaxSteps
    /\ steps' = steps + 1
    /\ q' = [q EXCEPT ![t] = [IdleQ EXCEPT !.domain = domain,
                                           !.pc = "blacklist"]]
    /\ UNCHANGED <<servers, domains, wildcards, hasCache, entries, now,
                   serverIndex, useRoundRobin, rrLog, noUp, ret, lastSet, loopVars, callVars, srvVars>>

\* Lookup, lines 51-54: the call and the check of the empty name
Lookup(t, domain) ==
    /\ q[t].pc = "idle"
    /\ steps < MaxSteps
    /\ steps' = steps + 1
    /\ LET rec == [IdleQ EXCEPT !.domain = domain] IN
       q' = [q EXCEPT ![t] =
                IF domain = <<>>
                THEN Returned(rec, NilSlice, ErrEmptyDomain, "InvalidArgument")
                ELSE [rec EXCEPT !.pc = "blacklist"]]
    /\ UNCHANGED <<servers, domains, wildcards, hasCache, entries, now,
                   serverIndex, useRoundRobin, rrLog, noUp, ret, lastSet, loopVars, callVars, srvVars>>

\* mutant: a name with a live cache entry is not looked up in the blacklist
LookupBlacklist_CacheFirst(t) ==
    /\ q[t].pc = "blacklist"
    /\ CanRLock("blacklist")
    /\ LET b == IsBlocked(q[t].domain) /\ (~hasCache \/ Get(q[t].domain).nil)
           rec == [q[t] EXCEPT !.blocked = b] IN
       q' = [q EXCEPT ![t] =
                IF b THEN Returned(rec, Sinkhole, NoErr, "Blocked")
                ELSE [rec EXCEPT !.pc = IF hasCache THEN "cache"
                                        ELSE "snapshot"]]
    /\ UNCHANGED <<servers, domains, wildcards, hasCache, entries, now,
                   serverIndex, useRoundRobin, rrLog, steps, noUp, ret, lastSet, loopVars, callVars, srvVars>>

\* Lookup, lines 56-59
LookupBlacklist(t) ==
    /\ q[t].pc = "blacklist"
    /\ CanRLock("blacklist")
    /\ LET b == IsBlocked(q[t].domain)
           rec == [q[t] EXCEPT !.blocked = b] IN
       q' = [q EXCEPT ![t] =
                IF b THEN Returned(rec, Sinkhole, NoErr, "Blocked")
                ELSE [rec EXCEPT !.pc = IF hasCache THEN "cache"
                                        ELSE "snapshot"]]
    /\ UNCHANGED <<servers, domains, wildcards, hasCache, entries, now,
                   serverIndex, useRoundRobin, rrLog, steps, noUp, ret, lastSet, loopVars, callVars, srvVars>>

\* mutant: a cache hit renews the time stamp of the entry
LookupCache_Touch(t) ==
    /\ q[t].pc = "cache"
    /\ CanRLock("cache")
    /\ LET d == q[t].domain
           cached == Get(d)
           rec == [q[t] EXCEPT
                     !.got = TRUE,
                     !.seen = IF d \in DOMAIN entries
                              THEN [present |-> TRUE,
                                    IPs |-> entries[d].IPs,
                                    age |-> now - entries[d].Timestamp]
                              ELSE NotSeen] IN
       /\ q' = [q EXCEPT ![t] =
                IF ~cached.nil THEN Returned(rec, cached, NoErr, "CacheHit")
                ELSE [rec EXCEPT !.pc = "snapshot"]]
       /\ entries' = IF ~cached.nil THEN SetEntry(d, cached) ELSE entries
    /\ UNCHANGED <<servers, domains, wildcards, hasCache, now,
                   serverIndex, useRoundRobin, rrLog, steps, noUp, ret, lastSet, loopVars, callVars, srvVars>>

\* Lookup, lines 61-66
LookupCache(t) ==
    /\ q[t].pc = "cache"
    /\ CanRLock("cache")
    /\ LET d == q[t].domain
           cached == Get(d)
           rec == [q[t] EXCEPT
                     !.got = TRUE,
                     !.seen = IF d \in DOMAIN entries
                              THEN [present |-> TRUE,
                                    IPs |-> entries[d].IPs,
                                    age |-> now - entries[d].Timestamp]
                              ELSE NotSeen] IN
       q' = [q EXCEPT ![t] =
                IF ~cached.nil THEN Returned(rec, cached, NoErr, "CacheHit")
                ELSE [rec EXCEPT !.pc = "snapshot"]]
    /\ UNCHANGED <<servers, domains, wildcards, hasCache, entries, now,
                   serverIndex, useRoundRobin, rrLog, steps, noUp, ret, lastSet, loopVars, callVars, srvVars>>

\* mutant: a name that once found no server keeps failing
LookupSnapshot_Sticky(t) ==
    /\ q[t].pc = "snapshot"
    /\ \E s \in GetAllServers :
         LET rec == [q[t] EXCEPT !.snap = TRUE, !.snapshot = s] IN
         IF Len(s) = 0 \/ q[t].domain \in noUp
         THEN /\ q' = [q EXCEPT ![t] =
                         Returned(rec, NilSlice, ErrNoServers,
                                  "NoUpstreamAvailable")]
              /\ noUp' = noUp \cup {q[t].domain}
         ELSE /\ q' = [q EXCEPT ![t] = [rec EXCEPT !.pc = "mode"]]
              /\ noUp' = noUp
    /\ UNCHANGED <<servers, domains, wildcards, hasCache, entries, now,
                   serverIndex, useRoundRobin, rrLog, steps, ret, lastSet, loopVars, callVars, srvVars>>

\* a snapshot taken under a read lock that is still held when the
\* upstream attempts are made
LookupSnapshot_KeepsLock(t) ==
    /\ q[t].pc = "snapshot"
    /\ CanRLock("registry")
    /\ \E s \in GetAllServers :
         LET rec == [q[t] EXCEPT !.snap = TRUE, !.snapshot = s] IN
         IF Len(s) = 0
         THEN /\ q' = [q EXCEPT ![t] =
                         Returned(rec, NilSlice, ErrNoServers,
                                  "NoUpstreamAvailable")]
              /\ noUp' = noUp \cup {q[t].domain}
              /\ mu' = mu
         ELSE /\ q' = [q EXCEPT ![t] = [rec EXCEPT !.pc = "mode"]]
              /\ noUp' = noUp
              /\ mu' = [mu EXCEPT !.registry.r = @ \cup {t}]
    /\ UNCHANGED <<servers, domains, wildcards, hasCache, entries, now,
                   serverIndex, useRoundRobin, rrLog, steps, ret, lastSet,
                   loopVars, rq, srvVars>>

\* Lookup, lines 68-72: GetAllServers takes the read lock of the registry
\* and has given it back when it returns
LookupSnapshot(t) ==
    /\ q[t].pc = "snapshot"
    /\ CanRLock("registry")
    /\ \E s \in GetAllServers :
         LET rec == [q[t] EXCEPT !.snap = TRUE, !.snapshot = s] IN
         IF Len(s) = 0
         THEN /\ q' = [q EXCEPT ![t] =
                         Returned(rec, NilSlice, ErrNoServers,
                                  "NoUpstreamAvailable")]
              /\ noUp' = noUp \cup {q[t].domain}
         ELSE /\ q' = [q EXCEPT ![t] = [rec EXCEPT !.pc = "mode"]]
              /\ noUp' = noUp
    /\ UNCHANGED <<servers, domains, wildcards, hasCache, entries, now,
                   serverIndex, useRoundRobin, rrLog, steps, ret, lastSet, loopVars, callVars, srvVars>>

\* Lookup, lines 77-83: the read of useRoundRobin
LookupMode(t) ==
    /\ q[t].pc = "mode"
    /\ q' = [q EXCEPT ![t] =
                IF useRoundRobin
                THEN [q[t] EXCEPT !.pc = "rr", !.mode = "rr"]
                ELSE [q[t] EXCEPT !.pc = "attempt", !.mode = "fallback"]]
    /\ UNCHANGED <<servers, domains, wildcards, hasCache, entries, now,
                   serverIndex, useRoundRobin, rrLog, steps, noUp, ret, lastSet, loopVars, callVars, srvVars>>

\* mutant: the cursor is not advanced
AddUint32_Stuck(v) == v

\* atomic.AddUint32(&p.serverIndex, 1): the new value, wrapping at 2^32
AddUint32(v) ==
    IF v.lo + 1 < Half
    THEN [hi |-> v.hi, lo |-> v.lo + 1]
    ELSE [hi |-> (v.hi + 1) % Half, lo |-> 0]

\* v % n for a uint32 v and 0 < n < Half
ModUint32(v, n) == ((v.hi % n) * (Half % n) + (v.lo % n)) % n

\* lookupRoundRobin, line 104: the start index for the new cursor value
StartIndex(cursor, n) == ModUint32(cursor, n)

\* a cursor that is read and incremented but not written back
lookupRoundRobin_NoStore(t) ==
    /\ q[t].pc = "rr"
    /\ LET n == Len(q[t].snapshot) IN
       IF n = 0
       THEN /\ q' = [q EXCEPT ![t] =
                       Returned(q[t], NilSlice, ErrNoServersAvailable,
                                "NoUpstreamAvailable")]
            /\ UNCHANGED <<serverIndex, rrLog>>
       ELSE LET cursor == AddUint32(serverIndex)
                index == StartIndex(cursor, n) IN
            /\ serverIndex' = serverIndex
            /\ rrLog' = Append(rrLog, [cursor |-> cursor, start |-> index,
                                       n |-> n])
            /\ q' = [q EXCEPT ![t] =
                       [q[t] EXCEPT !.pc = "attempt", !.cursor = cursor,
                                    !.index = index]]
    /\ UNCHANGED <<servers, domains, wildcards, hasCache, entries, now,
                   useRoundRobin, steps, noUp, ret, lastSet, loopVars, callVars, srvVars>>

\* lookupRoundRobin, lines 99-104
lookupRoundRobin(t) ==
    /\ q[t].pc = "rr"
    /\ LET n == Len(q[t].snapshot) IN
       IF n = 0
       THEN /\ q' = [q EXCEPT ![t] =
                       Returned(q[t], NilSlice, ErrNoServersAvailable,
                                "NoUpstreamAvailable")]
            /\ UNCHANGED <<serverIndex, rrLog>>
       ELSE LET cursor == AddUint32(serverIndex)
                index == StartIndex(cursor, n) IN
            /\ serverIndex' = cursor
            /\ rrLog' = Append(rrLog, [cursor |-> cursor, start |-> index,
                                       n |-> n])
            /\ q' = [q EXCEPT ![t] =
                       [q[t] EXCEPT !.pc = "attempt", !.cursor = cursor,
                                    !.index = index]]
    /\ UNCHANGED <<servers, domains, wildcards, hasCache, entries, now,
                   useRoundRobin, steps, noUp, ret, lastSet, loopVars, callVars, srvVars>>

\* mutant: every iteration of the round-robin loop tries the start server
ServerIdx_Same(rec) == IF rec.mode = "rr" THEN rec.index ELSE rec.i

\* the snapshot position tried in iteration i
\* (lookupRoundRobin line 109, lookupFallback line 123)
ServerIdx(rec) ==
    IF rec.mode = "rr"
    THEN (rec.index + rec.i) % Len(rec.snapshot)
    ELSE rec.i

\* lookupWithServer, lines 158-164: the conversion of the answer
ToIPs(addrs) == IF addrs = <<>> THEN NilSlice ELSE Slice(addrs)

\* Lookup, line 90
ShouldStore(ips) == hasCache /\ Len(ips.elems) > 0

\* one pass of the loop of lookupRoundRobin / lookupFallback whose
\* lookupWithServer succeeds, and Lookup lines 85-94 up to the cache write
AttemptOk(t) ==
    /\ q[t].pc = "attempt"
    /\ \E addrs \in UpstreamAddrs :
         LET idx == ServerIdx(q[t])
             ips == ToIPs(addrs)
             rec == [q[t] EXCEPT
                       !.attempts = Append(@, [idx |-> idx,
                             server |-> q[t].snapshot[idx + 1].Name,
                             ok |-> TRUE, ips |-> ips]),
                       !.ips = ips] IN
         q' = [q EXCEPT ![t] =
                  IF ShouldStore(ips)
                  THEN [rec EXCEPT !.pc = "store"]
                  ELSE Returned(rec, ips, NoErr, "ResolvedFresh")]
    /\ UNCHANGED <<servers, domains, wildcards, hasCache, entries, now,
                   serverIndex, useRoundRobin, rrLog, steps, noUp, ret, lastSet, loopVars, callVars, srvVars>>

\* mutant: the loop gives up at the first server that fails
AttemptFail_GivesUp(t) ==
    /\ q[t].pc = "attempt"
    /\ LET idx == ServerIdx(q[t])
           name == q[t].snapshot[idx + 1].Name
           rec == [q[t] EXCEPT
                     !.attempts = Append(@, [idx |-> idx, server |-> name,
                                             ok |-> FALSE, ips |-> NilSlice]),
                     !.lastErr = ErrLookupFailed(name),
                     !.i = @ + 1] IN
       q' = [q EXCEPT ![t] =
                Returned(rec, NilSlice, ErrAllFailed(rec.lastErr),
                         "UpstreamExhausted")]
    /\ UNCHANGED <<servers, domains, wildcards, hasCache, entries, now,
                   serverIndex, useRoundRobin, rrLog, steps, noUp, ret, lastSet, loopVars, callVars, srvVars>>

\* mutant: the error of the first failing server is kept, not the last
AttemptFail_FirstErr(t) ==
    /\ q[t].pc = "attempt"
    /\ LET idx == ServerIdx(q[t])
           name == q[t].snapshot[idx + 1].Name
           rec == [q[t] EXCEPT
                     !.attempts = Append(@, [idx |-> idx, server |-> name,
                                             ok |-> FALSE, ips |-> NilSlice]),
                     !.lastErr = IF @ = NoErr THEN ErrLookupFailed(name)
                                 ELSE @,
                     !.i = @ + 1] IN
       q' = [q EXCEPT ![t] =
                IF rec.i < Len(rec.snapshot)
                THEN rec
                ELSE Returned(rec, NilSlice, ErrAllFailed(rec.lastErr),
                              "UpstreamExhausted")]
    /\ UNCHANGED <<servers, domains, wildcards, hasCache, entries, now,
                   serverIndex, useRoundRobin, rrLog, steps, noUp, ret, lastSet, loopVars, callVars, srvVars>>

\* mutant: a failed server is tried again instead of the next one
AttemptFail_Retry(t) ==
    /\ q[t].pc = "attempt"
    /\ LET idx == ServerIdx(q[t])
           name == q[t].snapshot[idx + 1].Name IN
       q' = [q EXCEPT ![t] =
                [q[t] EXCEPT
                   !.attempts = Append(@, [idx |-> idx, server |-> name,
                                           ok |-> FALSE, ips |-> NilSlice]),
                   !.lastErr = ErrLookupFailed(name)]]
    /\ UNCHANGED <<servers, domains, wildcards, hasCache, entries, now,
                   serverIndex, useRoundRobin, rrLog, steps, noUp, ret, lastSet, loopVars, callVars, srvVars>>

\* one pass of the loop whose lookupWithServer fails (error or timeout)
AttemptFail(t) ==
    /\ q[t].pc = "attempt"
    /\ LET idx == ServerIdx(q[t])
           name == q[t].snapshot[idx + 1].Name
           rec == [q[t] EXCEPT
                     !.attempts = Append(@, [idx |-> idx, server |-> name,
                                             ok |-> FALSE, ips |-> NilSlice]),
                     !.lastErr = ErrLookupFailed(name),
                     !.i = @ + 1] IN
       q' = [q EXCEPT ![t] =
                IF rec.i < Len(rec.snapshot)
                THEN rec
                ELSE Returned(rec, NilSlice, ErrAllFailed(rec.lastErr),
                              "UpstreamExhausted")]
    /\ UNCHANGED <<servers, domains, wildcards, hasCache, entries, now,
                   serverIndex, useRoundRobin, rrLog, steps, noUp, ret, lastSet, loopVars, callVars, srvVars>>

\* mutant: the result is stored under the lower-cased name
LookupStore_Lower(t) ==
    /\ q[t].pc = "store"
    /\ entries' = SetEntry(ToLower(q[t].domain), q[t].ips)
    /\ q' = [q EXCEPT ![t] =
                Returned([q[t] EXCEPT !.stored = TRUE], q[t].ips, NoErr,
                         "ResolvedFresh")]
    /\ UNCHANGED <<servers, domains, wildcards, hasCache, now, serverIndex,
                   useRoundRobin, rrLog, steps, noUp, ret, lastSet, loopVars, callVars, srvVars>>

\* a store that leaves alone an entry that another query has written
LookupStore_KeepFirst(t) ==
    /\ q[t].pc = "store"
    /\ CanLock("cache")
    /\ entries' = IF q[t].domain \in DOMAIN entries THEN entries
                  ELSE SetEntry(q[t].domain, q[t].ips)
    /\ q' = [q EXCEPT ![t] =
                Returned([q[t] EXCEPT !.stored = TRUE], q[t].ips, NoErr,
                         "ResolvedFresh")]
    /\ UNCHANGED <<servers, domains, wildcards, hasCache, now, serverIndex,
                   useRoundRobin, rrLog, steps, noUp, ret, lastSet, loopVars, callVars, srvVars>>

\* Lookup, lines 90-94: p.cache.Set(domain, ips) and the return
LookupStore(t) ==
    /\ q[t].pc = "store"
    /\ CanLock("cache")
    /\ entries' = SetEntry(q[t].domain, q[t].ips)
    /\ q' = [q EXCEPT ![t] =
                Returned([q[t] EXCEPT !.stored = TRUE], q[t].ips, NoErr,
                         "ResolvedFresh")]
    /\ UNCHANGED <<servers, domains, wildcards, hasCache, now, serverIndex,
                   useRoundRobin, rrLog, steps, noUp, ret, lastSet, loopVars, callVars, srvVars>>

\* the caller has taken the result; the task is free for the next call
LookupReturn(t) ==
    /\ q[t].pc = "done"
    /\ q' = [q EXCEPT ![t] = IdleQ]
    /\ UNCHANGED <<servers, domains, wildcards, hasCache, entries, now,
                   serverIndex, useRoundRobin, rrLog, steps, noUp, ret, lastSet, loopVars, callVars, srvVars>>

LookupStep(t) ==
    \/ LookupBlacklist(t)
    \/ LookupCache(t)
    \/ LookupSnapshot(t)
    \/ LookupMode(t)
    \/ lookupRoundRobin(t)
    \/ AttemptOk(t)
    \/ AttemptFail(t)
    \/ LookupStore(t)

----------------------------------------------------------------------------
(* The protocol server in front of the proxy *)

\* two DNSServer values made by NewDNSServer for the same address
DNSServers == { "d1", "d2" }

\* the Ttl of every record
RecordTtl == 300

\* a server after NewDNSServer: Start has not been called, no listener;
\* after is the set of servers whose Start had returned nil when Start of
\* this one was called
NewDNSServer == [pc |-> "new", lis |-> "none", after |-> {}]

\* nobody holds the address
Free == [kind |-> "", d |-> ""]

\* the names of the questions; their types are A, AAAA and MX
QNames == { <<".">>, <<"a", ".">>, <<"a", ".", ".">> }

\* the handler between two requests
IdleH ==
    [pc |-> "idle", d |-> "", name |-> <<>>, qtype |-> "", domain |-> <<>>,
     ips |-> NilSlice, err |-> NoErr, rcode |-> "", answers |-> <<>>]

\* net.ParseIP followed by To4: ok is false for a nil IP, v4 tells whether
\* To4 is not nil, text is the address the record carries
ParseIP(ip) ==
    CASE ip = "0.0.0.0" -> [ok |-> TRUE, v4 |-> TRUE, text |-> "0.0.0.0"]
      [] ip = "1.2.3.4" -> [ok |-> TRUE, v4 |-> TRUE, text |-> "1.2.3.4"]
      [] ip = "9.9.9.9" -> [ok |-> TRUE, v4 |-> TRUE, text |-> "9.9.9.9"]
      [] ip = "::ffff:1.2.3.4" -> [ok |-> TRUE, v4 |-> TRUE, text |-> "1.2.3.4"]
      [] ip = "::" -> [ok |-> TRUE, v4 |-> FALSE, text |-> "::"]
      [] ip = "::1" -> [ok |-> TRUE, v4 |-> FALSE, text |-> "::1"]
      [] OTHER -> [ok |-> FALSE, v4 |-> FALSE, text |-> ""]

\* the nil dns.RR
NoRR == [Name |-> <<>>, Rrtype |-> "", Class |-> "", Ttl |-> 0, Data |-> ""]

\* mutant: the question type is not compared, every address gets a record
\* of its own family
createDNSRecord_AnyType(name, ip, qtype) ==
    LET parsedIP == ParseIP(ip) IN
    IF ~parsedIP.ok THEN NoRR
    ELSE [Name |-> name, Rrtype |-> IF parsedIP.v4 THEN "A" ELSE "AAAA",
          Class |-> "IN", Ttl |-> RecordTtl, Data |-> parsedIP.text]

\* createDNSRecord, lines 120-153
createDNSRecord(name, ip, qtype) ==
    LET parsedIP == ParseIP(ip) IN
    IF ~parsedIP.ok THEN NoRR
    ELSE IF parsedIP.v4 /\ qtype = "A"
    THEN [Name |-> name, Rrtype |-> "A", Class |-> "IN",
          Ttl |-> RecordTtl, Data |-> parsedIP.text]
    ELSE IF ~parsedIP.v4 /\ qtype = "AAAA"
    THEN [Name |-> name, Rrtype |-> "AAAA", Class |-> "IN",
          Ttl |-> RecordTtl, Data |-> parsedIP.text]
    ELSE NoRR

\* processQuestion, lines 107-113: the loop over the addresses
RECURSIVE Records(_, _, _)
Records(name, qtype, ips) ==
    IF ips = <<>> THEN <<>>
    ELSE LET rr == createDNSRecord(name, Head(ips), qtype)
             rest == Records(name, qtype, Tail(ips)) IN
         IF rr # NoRR THEN <<rr>> \o rest ELSE rest

\* processQuestion, lines 96-99
StripDot(name) ==
    IF Len(name) > 0 /\ name[Len(name)] = "."
    THEN SubSeq(name, 1, Len(name) - 1)
    ELSE name

\* what an action of the servers leaves alone in the proxy
ProxyFrame ==
    UNCHANGED <<servers, domains, wildcards, hasCache, entries, now,
                serverIndex, useRoundRobin, q, rrLog, steps, noUp, ret,
                lastSet, loopVars, callVars>>

\* Start, lines 46-49: the probe binds the address or Start returns the
\* error
Start_Probe(d) ==
    /\ srv[d].pc = "new"
    /\ LET after == { o \in DNSServers : srv[o].pc = "started" } IN
       IF port = Free
       THEN /\ port' = [kind |-> "probe", d |-> d]
            /\ srv' = [srv EXCEPT ![d].pc = "probing", ![d].after = after]
       ELSE /\ port' = port
            /\ srv' = [srv EXCEPT ![d].pc = "failed", ![d].after = after]
    /\ UNCHANGED hq
    /\ ProxyFrame

\* Start, lines 50-60: the probe is closed, the listener goroutine is
\* started and Start returns nil
Start_Return(d) ==
    /\ srv[d].pc = "probing"
    /\ port' = Free
    /\ srv' = [srv EXCEPT ![d].pc = "started", ![d].lis = "spawned"]
    /\ UNCHANGED hq
    /\ ProxyFrame

\* Start, lines 53-58: ListenAndServe in the goroutine binds the address,
\* or fails and the error is printed
ListenAndServe(d) ==
    /\ srv[d].lis = "spawned"
    /\ IF port = Free
       THEN /\ port' = [kind |-> "listener", d |-> d]
            /\ srv' = [srv EXCEPT ![d].lis = "serving"]
       ELSE /\ port' = port
            /\ srv' = [srv EXCEPT ![d].lis = "stopped"]
    /\ UNCHANGED hq
    /\ ProxyFrame

\* handleDNSRequest, lines 72-75: a request with one question arrives at
\* a server that listens
handleDNSRequest(d, name, qtype) ==
    /\ srv[d].lis = "serving"
    /\ hq.pc \in { "idle", "written" }
    /\ hq' = [IdleH EXCEPT !.pc = "question", !.d = d, !.name = name,
                           !.qtype = qtype, !.rcode = "NOERROR"]
    /\ UNCHANGED <<srv, port>>
    /\ ProxyFrame

\* processQuestion, lines 88-99: the type check and the trailing dot
processQuestion(d) ==
    /\ hq.pc = "question"
    /\ hq.d = d
    /\ hq' = IF hq.qtype \notin { "A", "AAAA" }
             THEN [hq EXCEPT !.pc = "reply"]
             ELSE [hq EXCEPT !.pc = "lookup", !.domain = StripDot(hq.name)]
    /\ UNCHANGED <<srv, port>>
    /\ ProxyFrame

\* processQuestion, line 102: the call of Lookup
processQuestion_Lookup ==
    /\ hq.pc = "lookup"
    /\ Lookup("t1", hq.domain)

\* the steps of Lookup inside the call
processQuestion_Step ==
    /\ hq.pc = "lookup"
    /\ LookupStep("t1")

\* processQuestion, lines 102-115: Lookup has returned; the answers
processQuestion_Answers ==
    /\ hq.pc = "lookup"
    /\ q["t1"].pc = "done"
    /\ hq' = [hq EXCEPT !.pc = "reply", !.ips = q["t1"].ips, !.err = q["t1"].err,
                !.answers = IF q["t1"].err # NoErr THEN <<>>
                            ELSE Records(hq.name, hq.qtype, q["t1"].ips.elems)]
    /\ q' = [q EXCEPT !["t1"] = IdleQ]
    /\ UNCHANGED <<servers, domains, wildcards, hasCache, entries, now,
                   serverIndex, useRoundRobin, rrLog, steps, noUp, ret,
                   lastSet, loopVars, callVars, srv, port>>

\* handleDNSRequest, lines 78-83: the answers are sent
WriteMsg ==
    /\ hq.pc = "reply"
    /\ hq' = [hq EXCEPT !.pc = "written"]
    /\ UNCHANGED <<srv, port>>
    /\ ProxyFrame

----------------------------------------------------------------------------
(* The proxy after NewProxy (no cache, fallback) or NewProxyWithCache *)

Init ==
    /\ servers = <<>>
    /\ domains = {}
    /\ wildcards = {}
    /\ hasCache \in BOOLEAN
    /\ entries = <<>>
    /\ now = 0
    /\ serverIndex = Zero32
    /\ useRoundRobin = hasCache
    /\ q = [t \in Tasks |-> IdleQ]
    /\ rrLog = <<>>
    /\ steps = 0
    /\ noUp = {}
    /\ ret = NoRet
    /\ lastSet = <<>>
    /\ stopChan = "open"
    /\ sweeper = IF hasCache THEN "select" ELSE "none"
    /\ panicked = FALSE
    /\ rq = [t \in Tasks |-> NoCall]
    /\ mu = [registry |-> Unlocked, blacklist |-> Unlocked, cache |-> Unlocked]
    /\ srv = [d \in DNSServers |-> NewDNSServer]
    /\ port = Free
    /\ hq = IdleH

\* sequential queries of one task, interleaved step by step with the
\* calls of the other users of the registry, the blacklist and the cache
Next ==
    \/ \E s \in ServerPool : AddServer(s)
    \/ \E n \in { s.Name : s \in ServerPool } : RemoveServer(n)
    \/ RegistryClear
    \/ \E d \in RuleInputs : AddDomain(d)
    \/ \E d \in RuleInputs : RemoveDomain(d)
    \/ BlacklistClear
    \/ \E ips \in DirectSets : Set(<<"a">>, ips)
    \/ CleanExpired
    \/ CacheClear
    \/ Tick
    \/ \E b \in BOOLEAN : SetRoundRobin(b)
    \/ \E t \in Seq1, d \in LookupDomains : Lookup(t, d)
    \/ \E t \in Seq1 : LookupStep(t)
    \/ \E t \in Seq1 : LookupReturn(t)

Spec == Init /\ [][Next]_vars

\* every started Lookup keeps being scheduled
FairSpec == Spec /\ \A t \in Seq1 : WF_vars(LookupStep(t))

----------------------------------------------------------------------------
(* The blacklist, called directly by one task *)

\* the raw rules passed to AddDomain / RemoveDomain:
\* "", " ", "*.", "a", " A ", "*.a", "*.A", "x.a"
RawRules ==
    { <<>>, <<" ">>, <<"*", ".">>, <<"a">>, <<" ", "A", " ">>,
      <<"*", ".", "a">>, <<"*", ".", "A">>, <<"x", ".", "a">> }

\* the names passed to IsBlocked:
\* "", " ", "a", "A", " a\t", "x.a", "X.A", "a.b.a", "ax", "nota"
Queries ==
    { <<>>, <<" ">>, <<"a">>, <<"A">>, <<" ", "a", "\t">>,
      <<"x", ".", "a">>, <<"X", ".", "A">>, <<"a", ".", "b", ".", "a">>,
      <<"a", "x">>, <<"n", "o", "t", "a">> }

\* "0 x.a\n0 X.A\n0 x.a": one name on three lines
HostsRepeated ==
    <<"0", " ", "x", ".", "a", "\n", "0", " ", "X", ".", "A", "\n",
      "0", " ", "x", ".", "a">>

\* "# x.a\n\n0\n0 ax\n0 *.\n 1 a.b \r\n": a comment, a blank line, a line of
\* one field, a name without a dot, a rule AddDomain rejects, then a good line
HostsMalformed ==
    <<"#", " ", "x", ".", "a", "\n", "\n", "0", "\n", "0", " ", "a", "x", "\n",
      "0", " ", "*", ".", "\n", " ", "1", " ", "a", ".", "b", " ", "\r", "\n">>

\* "0 *.a\n0\ta.x #": a wildcard rule, and a line of three fields
HostsWildcard ==
    <<"0", " ", "*", ".", "a", "\n", "0", "\t", "a", ".", "x", " ", "#">>

\* the texts passed to LoadFromHostsContent
HostsTexts == { <<>>, HostsRepeated, HostsMalformed, HostsWildcard }

\* the record of a call of op with arg
Called(op, arg) == [NoRet EXCEPT !.op = op, !.arg = arg]

\* a direct call: it counts against the budget and leaves the proxy alone
Direct ==
    /\ ~panicked
    /\ steps < MaxSteps
    /\ steps' = steps + 1
    /\ UNCHANGED <<servers, hasCache, now, serverIndex, useRoundRobin, q,
                   rrLog, noUp, loopVars, callVars, srvVars>>

\* AddDomain, lines 26-50, and the error it returns
Blacklist_AddDomain(raw) ==
    /\ LET r == AddDomainOn(Rules, raw) IN
       /\ domains' = r.b.domains
       /\ wildcards' = r.b.wildcards
       /\ ret' = [Called("AddDomain", raw) EXCEPT !.err = r.err]
    /\ Direct
    /\ UNCHANGED <<entries, lastSet>>

\* RemoveDomain, lines 53-72, and the error it returns
Blacklist_RemoveDomain(raw) ==
    /\ LET r == RemoveDomainOn(Rules, raw) IN
       /\ domains' = r.b.domains
       /\ wildcards' = r.b.wildcards
       /\ ret' = [Called("RemoveDomain", raw) EXCEPT !.err = r.err]
    /\ Direct
    /\ UNCHANGED <<entries, lastSet>>

\* IsBlocked, lines 76-100, and the answer it returns
Blacklist_IsBlocked(domain) ==
    /\ ret' = [Called("IsBlocked", domain) EXCEPT !.ok = IsBlocked(domain)]
    /\ Direct
    /\ UNCHANGED <<domains, wildcards, entries, lastSet>>

\* Clear, lines 137-143
Blacklist_Clear ==
    /\ domains' = {}
    /\ wildcards' = {}
    /\ ret' = Called("Clear", <<>>)
    /\ Direct
    /\ UNCHANGED <<entries, lastSet>>

\* parseHostsLine: the name on the line, or "" for a line to skip
parseHostsLine(line) ==
    LET l == TrimSpace(line) IN
    IF l = <<>> THEN <<>>
    ELSE IF HasPrefix(l, <<"#">>) THEN <<>>
    ELSE LET parts == Fields(l) IN
         IF Len(parts) < 2 THEN <<>>
         ELSE IF ~Contains(parts[2], ".") THEN <<>>
         ELSE parts[2]

\* mutant: the loop ends at the first line AddDomain rejects
RECURSIVE LoadLines_Abort(_, _, _)
LoadLines_Abort(b, lines, added) ==
    IF lines = <<>> THEN [b |-> b, added |-> added]
    ELSE LET domain == parseHostsLine(Head(lines)) IN
         IF domain = <<>> THEN LoadLines_Abort(b, Tail(lines), added)
         ELSE LET r == AddDomainOn(b, domain) IN
              IF r.err # NoErr THEN [b |-> b, added |-> added]
              ELSE LoadLines_Abort(r.b, Tail(lines), added + 1)

\* the loop of LoadFromHostsContent over the remaining lines
RECURSIVE LoadLines(_, _, _)
LoadLines(b, lines, added) ==
    IF lines = <<>> THEN [b |-> b, added |-> added]
    ELSE LET domain == parseHostsLine(Head(lines)) IN
         IF domain = <<>> THEN LoadLines(b, Tail(lines), added)
         ELSE LET r == AddDomainOn(b, domain) IN
              IF r.err # NoErr THEN LoadLines(b, Tail(lines), added)
              ELSE LoadLines(r.b, Tail(lines), added + 1)

\* LoadFromHostsContent, and the count it returns
LoadFromHostsContent(content) ==
    /\ LET r == LoadLines(Rules, Split(content, "\n"), 0) IN
       /\ domains' = r.b.domains
       /\ wildcards' = r.b.wildcards
       /\ ret' = [Called("LoadFromHostsContent", content) EXCEPT
                   !.n = r.added]
    /\ Direct
    /\ UNCHANGED <<entries, lastSet>>

\* a proxy without a cache; only the blacklist is used
BlacklistInit == Init /\ ~hasCache

BlacklistNext ==
    \/ \E raw \in RawRules : Blacklist_AddDomain(raw)
    \/ \E raw \in RawRules : Blacklist_RemoveDomain(raw)
    \/ \E d \in Queries : Blacklist_IsBlocked(d)
    \/ Blacklist_Clear
    \/ \E content \in HostsTexts : LoadFromHostsContent(content)

BlacklistSpec == BlacklistInit /\ [][BlacklistNext]_vars

----------------------------------------------------------------------------
(* The cache, called directly by one task *)

\* the keys passed to Set and Get
CacheKeys == { <<"a">>, <<"b">> }

\* the amounts of time that pass between two calls: up to ttl, and beyond
Durations == { 1, TTL + 1 }

\* Set, lines 58-66
Cache_Set(domain, ips) ==
    /\ entries' = SetEntry(domain, ips)
    /\ lastSet' = [k \in DOMAIN lastSet \cup {domain} |->
                     IF k = domain THEN [at |-> now, ips |-> ips]
                     ELSE lastSet[k]]
    /\ ret' = Called("Set", domain)
    /\ Direct
    /\ UNCHANGED <<domains, wildcards>>

\* Get, lines 40-55, and the slice it returns
Cache_Get(domain) ==
    /\ ret' = [Called("Get", domain) EXCEPT !.ips = Get(domain)]
    /\ Direct
    /\ UNCHANGED <<domains, wildcards, entries, lastSet>>

\* Clear, lines 69-74
Cache_Clear ==
    /\ entries' = <<>>
    /\ ret' = Called("Clear", <<>>)
    /\ Direct
    /\ UNCHANGED <<domains, wildcards, lastSet>>

\* CleanExpired, lines 85-100, and the count it returns
Cache_CleanExpired ==
    /\ entries' = Unexpired
    /\ ret' = [Called("CleanExpired", <<>>) EXCEPT
                 !.n = Cardinality(DOMAIN entries)
                         - Cardinality(DOMAIN Unexpired)]
    /\ Direct
    /\ UNCHANGED <<domains, wildcards, lastSet>>

\* Count, lines 77-82, and the number it returns
Cache_Count ==
    /\ ret' = [Called("Count", <<>>) EXCEPT !.n = CacheCount]
    /\ Direct
    /\ UNCHANGED <<domains, wildcards, entries, lastSet>>

\* Stop, lines 118-120: close(c.stopChan) returns at once; the close of a
\* closed channel panics
Cache_Stop ==
    /\ ~panicked
    /\ steps < MaxSteps
    /\ steps' = steps + 1
    /\ IF stopChan = "open"
       THEN stopChan' = "closed" /\ panicked' = FALSE
       ELSE stopChan' = stopChan /\ panicked' = TRUE
    /\ ret' = Called("Stop", <<>>)
    /\ UNCHANGED <<servers, domains, wildcards, hasCache, entries, now,
                   serverIndex, useRoundRobin, q, rrLog, noUp, lastSet,
                   sweeper, callVars, srvVars>>

\* what is left alone by a step of the cleanupLoop goroutine
LoopFrame ==
    UNCHANGED <<servers, domains, wildcards, hasCache, now, serverIndex,
                useRoundRobin, q, rrLog, steps, noUp, ret, lastSet, stopChan,
                panicked, callVars, srvVars>>

\* cleanupLoop, lines 107-109: the select receives from ticker.C
SweepTick ==
    /\ ~panicked
    /\ sweeper = "select"
    /\ sweeper' = "sweep"
    /\ entries' = entries
    /\ LoopFrame

\* a sweep that goes back to the select and deletes nothing
Sweep_Idle ==
    /\ ~panicked
    /\ sweeper = "sweep"
    /\ sweeper' = "select"
    /\ entries' = entries
    /\ LoopFrame

\* cleanupLoop, line 110: the sweep runs CleanExpired and goes back to the
\* select
Sweep ==
    /\ ~panicked
    /\ sweeper = "sweep"
    /\ sweeper' = "select"
    /\ entries' = Unexpired
    /\ LoopFrame

\* a loop that never takes the stop case of its select
SweepExit_Never ==
    /\ FALSE
    /\ UNCHANGED vars

\* cleanupLoop, lines 111-112: the select receives from the closed stopChan
\* and the goroutine returns
SweepExit ==
    /\ ~panicked
    /\ sweeper = "select"
    /\ stopChan = "closed"
    /\ sweeper' = "exited"
    /\ entries' = entries
    /\ LoopFrame

\* time passes between two calls
Elapse(dt) ==
    /\ ~panicked
    /\ now' = now + dt
    /\ steps < MaxSteps
    /\ steps' = steps + 1
    /\ UNCHANGED <<servers, domains, wildcards, hasCache, entries,
                   serverIndex, useRoundRobin, q, rrLog, noUp, ret, lastSet, loopVars, callVars, srvVars>>

\* a cache after NewCache
CacheInit == Init /\ hasCache

CacheNext ==
    \/ \E d \in CacheKeys, ips \in DirectSets : Cache_Set(d, ips)
    \/ \E d \in CacheKeys : Cache_Get(d)
    \/ Cache_Clear
    \/ Cache_CleanExpired
    \/ Cache_Count
    \/ Cache_Stop
    \/ SweepTick
    \/ Sweep
    \/ SweepExit
    \/ \E dt \in Durations : Elapse(dt)

CacheSpec == CacheInit /\ [][CacheNext]_vars

\* the ticker keeps firing, the goroutine of the sweep is scheduled, and a
\* select that finds stopChan closed again and again takes that case
CacheFairSpec ==
    /\ CacheSpec
    /\ WF_vars(SweepTick)
    /\ WF_vars(Sweep)
    /\ SF_vars(SweepExit)

----------------------------------------------------------------------------
(* The registry, called by concurrent tasks *)

\* what is left alone by a step of a call on the registry
RegistryFrame ==
    UNCHANGED <<domains, wildcards, hasCache, entries, now, serverIndex,
                useRoundRobin, q, rrLog, noUp, ret, lastSet, stopChan,
                sweeper, srvVars>>

\* the call is made; AddServer, lines 263-270, and RemoveServer, lines
\* 286-288, check their argument before they ask for the lock
Registry_Call(t, op, server, name) ==
    /\ ~panicked
    /\ rq[t].pc \in { "idle", "done" }
    /\ steps < MaxSteps
    /\ steps' = steps + 1
    /\ LET c == [NoCall EXCEPT !.op = op, !.server = server, !.name = name]
       IN
       IF op = "AddServer" /\ server.kind = "nil"
       THEN /\ rq' = [rq EXCEPT ![t] = [c EXCEPT !.pc = "done",
                                                 !.err = ErrNilServer]]
            /\ panicked' = FALSE
       ELSE IF op = "AddServer" /\ server.kind = "nilptr"
       THEN \* server.GetName() reads the Name of a nil *Server
            /\ rq' = [rq EXCEPT ![t] = c]
            /\ panicked' = TRUE
       ELSE IF op \in { "AddServer", "RemoveServer" } /\ name = ""
       THEN /\ rq' = [rq EXCEPT ![t] = [c EXCEPT !.pc = "done",
                                                 !.err = ErrEmptyName]]
            /\ panicked' = FALSE
       ELSE /\ rq' = [u \in Tasks |->
                         IF u = t
                         THEN [c EXCEPT !.pc = "wait", !.conc = Busy(t) # {}]
                         ELSE IF u \in Busy(t)
                         THEN [rq[u] EXCEPT !.conc = TRUE]
                         ELSE rq[u]]
            /\ panicked' = FALSE
    /\ UNCHANGED <<servers, mu>>
    /\ RegistryFrame

\* r.mu.Lock() or r.mu.RLock() returns
Registry_Lock(t) ==
    /\ ~panicked
    /\ rq[t].pc = "wait"
    /\ mu.registry.w = ""
    /\ IF rq[t].op \in Writers
       THEN /\ mu.registry.r = {}
            /\ mu' = [mu EXCEPT !.registry.w = t]
       ELSE mu' = [mu EXCEPT !.registry.r = @ \cup {t}]
    /\ rq' = [rq EXCEPT ![t].pc = "held"]
    /\ UNCHANGED <<servers, steps, panicked>>
    /\ RegistryFrame

\* the deferred r.mu.Unlock() or r.mu.RUnlock() of task t
Unlock(t) ==
    mu' = [mu EXCEPT !.registry.w = IF @ = t THEN "" ELSE @,
                     !.registry.r = @ \ {t}]

\* the method of task t returns: its lock is released
Registry_Done(t, err) ==
    /\ ~panicked
    /\ rq' = [rq EXCEPT ![t].pc = "done", ![t].err = err]
    /\ Unlock(t)
    /\ UNCHANGED <<steps, panicked>>
    /\ RegistryFrame

\* an AddServer that stores the server whether or not the name is taken
Registry_AddServer_Overwrite(t) ==
    /\ rq[t].pc = "held"
    /\ rq[t].op = "AddServer"
    /\ LET name == rq[t].name IN
       /\ servers' = [n \in DOMAIN servers \cup {name} |->
                         IF n = name THEN rq[t].server.s ELSE servers[n]]
       /\ Registry_Done(t, NoErr)

\* AddServer, lines 272-280
Registry_AddServer(t) ==
    /\ rq[t].pc = "held"
    /\ rq[t].op = "AddServer"
    /\ LET name == rq[t].name IN
       IF name \in DOMAIN servers
       THEN /\ servers' = servers
            /\ Registry_Done(t, ErrExists(name))
       ELSE /\ servers' = [n \in DOMAIN servers \cup {name} |->
                              IF n = name THEN rq[t].server.s ELSE servers[n]]
            /\ Registry_Done(t, NoErr)

\* RemoveServer, lines 290-298
Registry_RemoveServer(t) ==
    /\ rq[t].pc = "held"
    /\ rq[t].op = "RemoveServer"
    /\ LET name == rq[t].name IN
       IF name \notin DOMAIN servers
       THEN /\ servers' = servers
            /\ Registry_Done(t, ErrNotFound(name))
       ELSE /\ servers' = [n \in DOMAIN servers \ {name} |-> servers[n]]
            /\ Registry_Done(t, NoErr)

\* GetServer, lines 303-308: the server in out, or nothing for nil
Registry_GetServer(t) ==
    /\ rq[t].pc = "held"
    /\ rq[t].op = "GetServer"
    /\ servers' = servers
    /\ rq' = [rq EXCEPT ![t].pc = "done",
                        ![t].out = IF rq[t].name \in DOMAIN servers
                                   THEN <<servers[rq[t].name]>> ELSE <<>>]
    /\ Unlock(t)
    /\ ~panicked
    /\ UNCHANGED <<steps, panicked>>
    /\ RegistryFrame

\* GetAllServers, lines 315-318: the loop appends one more server of the
\* map, in the order the map iteration yields them
Registry_GetAllServers_Next(t) ==
    /\ ~panicked
    /\ rq[t].pc = "held"
    /\ rq[t].op = "GetAllServers"
    /\ \E n \in DOMAIN servers :
           /\ \A i \in 1..Len(rq[t].out) : rq[t].out[i] # servers[n]
           /\ rq' = [rq EXCEPT ![t].out = Append(@, servers[n])]
    /\ UNCHANGED <<servers, mu, steps, panicked>>
    /\ RegistryFrame

\* GetAllServers, line 320: the loop is over and the slice is returned
Registry_GetAllServers(t) ==
    /\ rq[t].pc = "held"
    /\ rq[t].op = "GetAllServers"
    /\ \A n \in DOMAIN servers :
           \E i \in 1..Len(rq[t].out) : rq[t].out[i] = servers[n]
    /\ servers' = servers
    /\ Registry_Done(t, NoErr)

\* Count, lines 324-329
Registry_Count(t) ==
    /\ rq[t].pc = "held"
    /\ rq[t].op = "Count"
    /\ servers' = servers
    /\ rq' = [rq EXCEPT ![t].pc = "done",
                        ![t].n = Cardinality(DOMAIN servers)]
    /\ Unlock(t)
    /\ ~panicked
    /\ UNCHANGED <<steps, panicked>>
    /\ RegistryFrame

\* a Clear that deletes the servers one by one and gives the lock back
\* after each
Registry_Clear_Piecewise(t) ==
    /\ rq[t].pc = "held"
    /\ rq[t].op = "Clear"
    /\ ~panicked
    /\ IF Cardinality(DOMAIN servers) > 1
       THEN /\ \E k \in DOMAIN servers :
                   servers' = [n \in DOMAIN servers \ {k} |-> servers[n]]
            /\ rq' = [rq EXCEPT ![t].pc = "wait"]
       ELSE /\ servers' = <<>>
            /\ rq' = [rq EXCEPT ![t].pc = "done"]
    /\ Unlock(t)
    /\ UNCHANGED <<steps, panicked>>
    /\ RegistryFrame

\* Clear, lines 332-337
Registry_Clear(t) ==
    /\ rq[t].pc = "held"
    /\ rq[t].op = "Clear"
    /\ servers' = <<>>
    /\ Registry_Done(t, NoErr)

\* a registry after NewRegistry
RegistryInit == Init /\ ~hasCache

RegistryNext ==
    \E t \in Tasks :
        \/ \E s \in AddInputs : Registry_Call(t, "AddServer", s, s.s.Name)
        \/ \E n \in NameInputs : Registry_Call(t, "RemoveServer", NilServer, n)
        \/ \E n \in NameInputs : Registry_Call(t, "GetServer", NilServer, n)
        \/ \E op \in { "GetAllServers", "Count", "Clear" } :
               Registry_Call(t, op, NilServer, "")
        \/ Registry_Lock(t)
        \/ Registry_AddServer(t)
        \/ Registry_RemoveServer(t)
        \/ Registry_GetServer(t)
        \/ Registry_GetAllServers_Next(t)
        \/ Registry_GetAllServers(t)
        \/ Registry_Count(t)
        \/ Registry_Clear(t)

RegistrySpec == RegistryInit /\ [][RegistryNext]_vars

----------------------------------------------------------------------------
(* Concurrent queries, with calls on the registry, the blacklist and the
   cache made by other tasks *)

\* the calls made on the registry while queries run
ConcCalls ==
    { [op |-> "AddServer", server |-> Ptr([Name |-> "s1", IPv4 |-> "1.1.1.1"])],
      [op |-> "Clear", server |-> NilServer] }

\* a task calls the registry when it is not inside Lookup
ConcCall(t, c) ==
    /\ q[t].pc = "idle"
    /\ Registry_Call(t, c.op, c.server, c.server.s.Name)

\* a step of the registry call of task t
ConcCallStep(t) ==
    \/ Registry_Lock(t)
    \/ Registry_AddServer(t)
    \/ Registry_Clear(t)

\* a task calls Lookup when it is not inside a call on the registry
ConcLookup(t, domain) ==
    /\ rq[t].pc \in { "idle", "done" }
    /\ Lookup(t, domain)

\* a proxy with a cache, in round-robin mode
ConcInit == Init /\ hasCache

ConcNext ==
    \/ \E t \in Tasks, c \in ConcCalls : ConcCall(t, c)
    \/ \E t \in Tasks : ConcCallStep(t)
    \/ \E d \in RuleInputs : AddDomain(d)
    \/ Set(<<"a">>, Slice(<<"9.9.9.9">>))
    \/ \E t \in Tasks : ConcLookup(t, <<"a">>)
    \/ \E t \in Tasks : LookupStep(t)
    \/ \E t \in Tasks : LookupReturn(t)

ConcSpec == ConcInit /\ [][ConcNext]_vars

----------------------------------------------------------------------------
(* The protocol servers, the proxy behind them and its other users *)

ServerNext ==
    \/ \E d \in DNSServers : Start_Probe(d)
    \/ \E d \in DNSServers : Start_Return(d)
    \/ \E d \in DNSServers : ListenAndServe(d)
    \/ \E d \in DNSServers, name \in QNames, qtype \in { "A", "AAAA", "MX" } :
          handleDNSRequest(d, name, qtype)
    \/ \E d \in DNSServers : processQuestion(d)
    \/ processQuestion_Lookup
    \/ processQuestion_Step
    \/ processQuestion_Answers
    \/ WriteMsg
    \/ AddServer([Name |-> "s1", IPv4 |-> "1.1.1.1"])
    \/ \E r \in RuleInputs : AddDomain(r)
    \* a caller that holds GetCache() stores a canonical address, a string
    \* that is no address and an IPv4-mapped IPv6 literal
    \/ Set(<<"a">>, Slice(<<"9.9.9.9", "bogus", "::ffff:1.2.3.4">>))

ServerSpec == Init /\ [][ServerNext]_vars

----------------------------------------------------------------------------
(* Sequential round-robin queries over an unchanged registry *)

\* a proxy made by NewProxy, switched to round-robin by SetRoundRobin(true),
\* with two or three servers added, before its first query or after
\* 2^32 - 2 of them
RotationInit ==
    /\ \E S \in { ServerPool,
                  ServerPool \cup { [Name |-> "s3", IPv4 |-> "9.9.9.9"] } } :
          servers = [n \in { s.Name : s \in S } |->
                        CHOOSE s \in S : s.Name = n]
    /\ domains = {}
    /\ wildcards = {}
    /\ hasCache = FALSE
    /\ entries = <<>>
    /\ now = 0
    /\ serverIndex \in { Zero32, [hi |-> Half - 1, lo |-> Half - 2] }
    /\ useRoundRobin = TRUE
    /\ q = [t \in Tasks |-> IdleQ]
    /\ rrLog = <<>>
    /\ steps = 0
    /\ noUp = {}
    /\ ret = NoRet
    /\ lastSet = <<>>
    /\ stopChan = "open"
    /\ sweeper = "none"
    /\ panicked = FALSE
    /\ rq = [t \in Tasks |-> NoCall]
    /\ mu = [registry |-> Unlocked, blacklist |-> Unlocked, cache |-> Unlocked]
    /\ srv = [d \in DNSServers |-> NewDNSServer]
    /\ port = Free
    /\ hq = IdleH

\* the caller starts the next query when the one before has returned; it
\* keeps the result of the one before
NextLookup(t) ==
    /\ \A u \in Tasks : q[u].pc \in { "idle", "done" }
    /\ Lookup(t, <<"a">>)

\* the steps of the query that is running
RunLookup(t) == q[t].pc \notin { "idle", "done" } /\ LookupStep(t)

\* the caller drops the older of two results
DropResult(t) ==
    /\ \A u \in Tasks : q[u].pc = "done"
    /\ \E u \in Tasks \ {t} : q[u].cursor = AddUint32(q[t].cursor)
    /\ LookupReturn(t)

RotationNext ==
    \/ \E t \in Tasks : NextLookup(t)
    \/ \E t \in Tasks : RunLookup(t)
    \/ \E t \in Tasks : DropResult(t)

RotationSpec == RotationInit /\ [][RotationNext]_vars

----------------------------------------------------------------------------
(* The three locks: calls that wait for a lock, hold it and give it back *)

\* the calls made directly on the cache and on the blacklist, and the lock
\* each of them takes; Set and AddDomain take mu.Lock(), Get takes mu.RLock()
DirectOps == { "Get", "Set", "AddDomain" }
LockOf(op) == IF op = "AddDomain" THEN "blacklist" ELSE "cache"

\* the locks that the task or goroutine a holds
HeldBy(a) == { l \in DOMAIN mu : mu[l].w = a \/ a \in mu[l].r }

\* what a step of a direct call leaves alone
DirectFrame ==
    UNCHANGED <<servers, hasCache, now, serverIndex, useRoundRobin, q, rrLog,
                noUp, ret, lastSet, loopVars, srvVars>>

\* the call is made: Get("a"), Set("a", ["9.9.9.9"]) or AddDomain("*.a")
Direct_Call(t, op) ==
    /\ rq[t].pc \in { "idle", "done" }
    /\ q[t].pc = "idle"
    /\ steps < MaxSteps
    /\ steps' = steps + 1
    /\ rq' = [rq EXCEPT ![t] = [NoCall EXCEPT !.pc = "wait", !.op = op]]
    /\ UNCHANGED <<domains, wildcards, entries, mu>>
    /\ DirectFrame

\* mu.Lock() or mu.RLock() returns (cache.go lines 41, 59; blacklist.go
\* line 34)
Direct_Lock(t) ==
    /\ rq[t].pc = "wait"
    /\ rq[t].op \in DirectOps
    /\ LET l == LockOf(rq[t].op) IN
       IF rq[t].op \in { "Set", "AddDomain" }
       THEN /\ CanLock(l)
            /\ mu' = [mu EXCEPT ![l].w = t]
       ELSE /\ CanRLock(l)
            /\ mu' = [mu EXCEPT ![l].r = @ \cup {t}]
    /\ rq' = [rq EXCEPT ![t].pc = "held"]
    /\ UNCHANGED <<domains, wildcards, entries, steps>>
    /\ DirectFrame

\* mutant: the method returns without its deferred Unlock
Direct_Return_KeepsLock(t) ==
    /\ rq[t].pc = "held"
    /\ rq[t].op \in DirectOps
    /\ LET op == rq[t].op
           b == IF op = "AddDomain"
                THEN AddDomainOn(Rules, <<"*", ".", "a">>).b
                ELSE Rules IN
       /\ domains' = b.domains
       /\ wildcards' = b.wildcards
       /\ entries' = IF op = "Set"
                     THEN SetEntry(<<"a">>, Slice(<<"9.9.9.9">>))
                     ELSE entries
       /\ rq' = [rq EXCEPT ![t].pc = "done",
                           ![t].out = IF op = "Get" THEN Get(<<"a">>).elems
                                      ELSE <<>>]
       /\ mu' = mu
    /\ UNCHANGED steps
    /\ DirectFrame

\* the body of the method and its deferred Unlock or RUnlock: Get, lines
\* 42-55, Set, lines 60-65, AddDomain, lines 35-49
Direct_Return(t) ==
    /\ rq[t].pc = "held"
    /\ rq[t].op \in DirectOps
    /\ LET op == rq[t].op
           l == LockOf(op)
           b == IF op = "AddDomain"
                THEN AddDomainOn(Rules, <<"*", ".", "a">>).b
                ELSE Rules IN
       /\ domains' = b.domains
       /\ wildcards' = b.wildcards
       /\ entries' = IF op = "Set"
                     THEN SetEntry(<<"a">>, Slice(<<"9.9.9.9">>))
                     ELSE entries
       /\ rq' = [rq EXCEPT ![t].pc = "done",
                           ![t].out = IF op = "Get" THEN Get(<<"a">>).elems
                                      ELSE <<>>]
       /\ mu' = [mu EXCEPT ![l].w = IF @ = t THEN "" ELSE @,
                           ![l].r = @ \ {t}]
    /\ UNCHANGED steps
    /\ DirectFrame

\* what a step of the sweep leaves alone
SweepFrame ==
    UNCHANGED <<servers, domains, wildcards, hasCache, now, serverIndex,
                useRoundRobin, q, rrLog, steps, noUp, ret, lastSet, stopChan,
                panicked, rq, srvVars>>

\* CleanExpired called by cleanupLoop: c.mu.Lock() returns (line 86)
Sweep_Lock ==
    /\ sweeper = "sweep"
    /\ CanLock("cache")
    /\ mu' = [mu EXCEPT !.cache.w = "sweep"]
    /\ sweeper' = "locked"
    /\ entries' = entries
    /\ SweepFrame

\* CleanExpired, lines 87-100: the expired entries are deleted, the lock is
\* given back and the loop is at its select again
Sweep_Return ==
    /\ sweeper = "locked"
    /\ entries' = Unexpired
    /\ mu' = [mu EXCEPT !.cache.w = ""]
    /\ sweeper' = "select"
    /\ SweepFrame

\* a call on the registry asks for its lock
Registry_LockOf(t) == rq[t].op \notin DirectOps /\ Registry_Lock(t)

\* AddServer is called on the registry
LockCall(t) ==
    /\ q[t].pc = "idle"
    /\ Registry_Call(t, "AddServer", Ptr([Name |-> "s1", IPv4 |-> "1.1.1.1"]),
                     "s1")

LockInit == Init /\ hasCache

\* task t1 runs Lookups, task t2 calls the three components, and the sweep
\* runs beside them
LockNext ==
    \/ \E op \in DirectOps : Direct_Call("t2", op)
    \/ Direct_Lock("t2")
    \/ Direct_Return("t2")
    \/ LockCall("t2")
    \/ Registry_LockOf("t2")
    \/ Registry_AddServer("t2")
    \/ ConcLookup("t1", <<"a">>)
    \/ LookupStep("t1")
    \/ LookupReturn("t1")
    \/ SweepTick
    \/ Sweep_Lock
    \/ Sweep_Return

LockSpec == LockInit /\ [][LockNext]_vars

\* the ticker keeps firing and every goroutine is scheduled; a goroutine
\* that waits for a sync.RWMutex gets it once it is free again and again
\* (a waiting writer holds back new readers, a release wakes the waiting
\* readers first, and sync.Mutex hands the lock to a waiter that has
\* waited long)
LockFairSpec ==
    /\ LockSpec
    /\ SF_vars(Direct_Lock("t2"))
    /\ WF_vars(Direct_Return("t2"))
    /\ SF_vars(Registry_LockOf("t2"))
    /\ WF_vars(Registry_AddServer("t2"))
    /\ SF_vars(LookupStep("t1"))
    /\ WF_vars(SweepTick)
    /\ SF_vars(Sweep_Lock)
    /\ WF_vars(Sweep_Return)

----------------------------------------------------------------------------
(* Properties of Lookup *)

C2_LiveEntryIsReturned ==
    \A t \in Tasks :
        (q[t].pc = "done" /\ q[t].got /\ q[t].seen.present
                          /\ q[t].seen.age <= TTL) =>
            /\ q[t].ips = q[t].seen.IPs
            /\ q[t].err = <<>>
            /\ ~q[t].snap
            /\ q[t].attempts = <<>>

\* C3: a round-robin Lookup with a snapshot of M >= 1 servers advances the
\* cursor by exactly one, starts at (new cursor) mod M and tries the
\* positions start, start+1, ... (mod M) in that order, each at most once,
\* stops at the first success, and has tried all M when it gives up.
C3_RoundRobinOrder ==
    /\ serverIndex = [hi |-> 0, lo |-> Len(rrLog)]
    /\ \A k \in DOMAIN rrLog : rrLog[k].cursor = [hi |-> 0, lo |-> k]
    /\ \A t \in Tasks :
         LET rec == q[t]
             M == Len(rec.snapshot)
             a == rec.attempts IN
         (rec.mode = "rr" /\ rec.pc \in {"attempt", "store", "done"}
                          /\ M >= 1) =>
            /\ rec.cursor.hi = 0
            /\ rec.cursor.lo \in DOMAIN rrLog
            /\ rec.index = rec.cursor.lo % M
            /\ Len(a) <= M
            /\ \A k \in DOMAIN a :
                  /\ a[k].idx = (rec.index + k - 1) % M
                  /\ a[k].server = rec.snapshot[a[k].idx + 1].Name
                  /\ a[k].ok => (k = Len(a) /\ rec.pc # "attempt")
            /\ \A j, k \in DOMAIN a : a[j].idx = a[k].idx => j = k
            /\ (rec.pc = "done" /\ rec.err # <<>>) =>
                  { a[k].idx : k \in DOMAIN a } = 0..(M - 1)
            /\ rec.pc = "attempt" => Len(a) < M

\* two servers, start index 1: position 1 failed, then position 0 was tried
C3_Witness ==
    \E t \in Tasks :
        /\ q[t].pc = "done" /\ q[t].mode = "rr"
        /\ Len(q[t].snapshot) = 2 /\ q[t].index = 1
        /\ Len(q[t].attempts) = 2
        /\ q[t].attempts[2].idx = 0

\* C4: in both modes, once a server answers, Lookup returns that answer and
\* no error, every server tried before it had failed, none is tried after
\* it, and Lookup gives up only after every server of the snapshot failed.
C4_FirstSuccessWins ==
    \A t \in Tasks :
        LET rec == q[t]
            a == rec.attempts
            n == Len(a) IN
        /\ (rec.pc \in {"store", "done"} /\ \E k \in DOMAIN a : a[k].ok) =>
              /\ a[n].ok
              /\ \A k \in 1..(n - 1) : ~a[k].ok
              /\ rec.ips = a[n].ips
              /\ rec.pc = "done" => rec.err = <<>>
        /\ (rec.pc = "done" /\ n > 0 /\ \A k \in DOMAIN a : ~a[k].ok) =>
              /\ n = Len(rec.snapshot)
              /\ \A j, k \in DOMAIN a : a[j].server = a[k].server => j = k
        /\ rec.mode = "fallback" => \A k \in DOMAIN a : a[k].idx = k - 1

\* fallback mode, the first server failed and the second answered
C4_Witness ==
    \E t \in Tasks :
        /\ q[t].pc = "done" /\ q[t].mode = "fallback"
        /\ Len(q[t].attempts) = 2
        /\ ~q[t].attempts[1].ok /\ q[t].attempts[2].ok
        /\ q[t].ips = Slice(<<"1.2.3.4", "::1">>)
        /\ q[t].err = <<>>

\* C5: a Lookup all of whose upstream attempts failed returns no addresses
\* and the "all DNS servers failed" error wrapping the error of the last
\* server tried and of no other, and the step that returns it leaves the
\* cache as it was; the Lookup has written no entry.
C5_AllFailed ==
    [][\A t \in Tasks :
         LET a == q'[t].attempts IN
         (q[t].pc # "done" /\ q'[t].pc = "done" /\ a # <<>>
                           /\ \A k \in DOMAIN a : ~a[k].ok) =>
            /\ q'[t].err = <<"all DNS servers failed, last error",
                             "lookup failed for server", a[Len(a)].server>>
            /\ q'[t].ips = [nil |-> TRUE, elems |-> <<>>]
            /\ entries' = entries
            /\ ~q'[t].stored]_vars

\* both servers failed, with a cache attached
C5_Witness ==
    \E t \in Tasks :
        /\ q[t].pc = "done" /\ hasCache
        /\ Len(q[t].attempts) = 2
        /\ \A k \in 1..2 : ~q[t].attempts[k].ok
        /\ q[t].attempts[1].server # q[t].attempts[2].server

\* C6: a Lookup that gets past the blacklist and the cache and finds the
\* registry empty fails with "no DNS servers configured" in either mode
\* without an upstream attempt; one that finds a server goes on to the
\* upstream attempts, also for a name that found no server before.
C6_NoServers ==
    \A t \in Tasks :
        LET rec == q[t] IN
        /\ (rec.pc = "done" /\ rec.snap /\ rec.snapshot = <<>>) =>
              /\ rec.err = <<"no DNS servers configured">>
              /\ rec.ips = [nil |-> TRUE, elems |-> <<>>]
              /\ rec.attempts = <<>>
              /\ rec.domain \in noUp
        /\ (rec.pc = "done" /\ rec.snap /\ rec.snapshot # <<>>) =>
              /\ rec.err # <<"no DNS servers configured">>
              /\ rec.attempts # <<>>

\* a name that found no server before resolves once a server is registered
C6_Witness ==
    \E t \in Tasks :
        /\ q[t].pc = "done" /\ q[t].domain \in noUp
        /\ q[t].snapshot # <<>>
        /\ q[t].err = <<>> /\ q[t].ips # NilSlice

\* C7: every Lookup call ends, in exactly one of InvalidArgument, Blocked,
\* CacheHit, NoUpstreamAvailable, ResolvedFresh and UpstreamExhausted, after
\* at most M upstream attempts for a snapshot of M servers and without
\* trying any server twice, provided each of its steps terminates.
C7_Terminates ==
    /\ [](\A t \in Tasks :
            LET rec == q[t]
                a == rec.attempts IN
            /\ Len(a) <= Len(rec.snapshot)
            /\ \A j, k \in DOMAIN a : a[j].server = a[k].server => j = k
            /\ rec.pc = "done" =>
                 Cardinality({ o \in 1..6 :
                    CASE o = 1 -> rec.err = <<"domain cannot be empty">>
                      [] o = 2 -> rec.err = <<>> /\ rec.blocked
                      [] o = 3 -> rec.err = <<>> /\ ~rec.blocked /\ a = <<>>
                                  /\ rec.got /\ ~rec.snap
                      [] o = 4 -> rec.err = <<"no DNS servers configured">>
                      [] o = 5 -> rec.err = <<>> /\ a # <<>> /\ a[Len(a)].ok
                      [] o = 6 -> /\ rec.err # <<>>
                                  /\ Head(rec.err) =
                                       "all DNS servers failed, last error"
                 }) = 1)
    /\ \A t \in Tasks : (q[t].pc # "idle") ~> (q[t].pc = "done")

\* a Lookup that ended after as many attempts as it had servers
C7_Witness ==
    \E t \in Tasks :
        /\ q[t].pc = "done"
        /\ Len(q[t].snapshot) = 2 /\ Len(q[t].attempts) = 2

\* C8: Lookup("") returns no addresses and the "domain cannot be empty"
\* error in its first step: the call is never at the blacklist, the cache
\* or the registry, whatever they hold.
C8_EmptyDomain ==
    \A t \in Tasks :
        (q[t].pc # "idle" /\ q[t].domain = <<>>) =>
            /\ q[t].pc = "done"
            /\ q[t].err = <<"domain cannot be empty">>
            /\ q[t].ips = [nil |-> TRUE, elems |-> <<>>]
            /\ ~q[t].got /\ ~q[t].snap /\ q[t].attempts = <<>>

\* Lookup("") with a rule, a server and a cache entry present
C8_Witness ==
    \E t \in Tasks :
        /\ q[t].pc = "done" /\ q[t].domain = <<>>
        /\ wildcards # {} /\ servers # <<>> /\ entries # <<>>

\* C9: the step by which a Lookup returns a fresh upstream result writes,
\* when a cache is attached and the result is non-empty, exactly the entry
\* (result, now) under the name as passed to Lookup and changes no other
\* key; otherwise it leaves the cache as it was.
C9_StoresFreshResult ==
    [][\A t \in Tasks :
         LET a == q'[t].attempts
             d == q'[t].domain
             r == q'[t].ips IN
         (q[t].pc # "done" /\ q'[t].pc = "done" /\ a # <<>>
                           /\ a[Len(a)].ok) =>
            IF hasCache /\ r.elems # <<>>
            THEN /\ DOMAIN entries' = DOMAIN entries \cup {d}
                 /\ entries'[d] = [IPs |-> r, Timestamp |-> now']
                 /\ \A k \in DOMAIN entries \ {d} : entries'[k] = entries[k]
                 /\ q[t].pc = "store"
            ELSE /\ entries' = entries
                 /\ q[t].pc = "attempt"]_vars

\* the result for "A" is stored under "A"; there is no entry for "a"
C9_Witness ==
    \E t \in Tasks :
        /\ q[t].pc = "done" /\ q[t].stored
        /\ q[t].domain = <<"A">>
        /\ <<"A">> \in DOMAIN entries
        /\ entries[<<"A">>].IPs = q[t].ips
        /\ <<"a">> \notin DOMAIN entries

C11_ModeFollowsCache ==
    \A t \in Tasks :
        q[t].mode # "" => (q[t].mode = "rr" <=> hasCache)

----------------------------------------------------------------------------
(* Properties of the blacklist *)

\* C12: IsBlocked("") is false; for any other d, with n the trimmed,
\* lower-cased d, IsBlocked(d) is true exactly when n is in the exact set or
\* some stored suffix s has n = s or n = p + "." + s for some p. With "*.a"
\* as the only rule, "a", "x.a" and "a.b.a" are blocked and "ax" and "nota"
\* are not.
C12_IsBlockedMatches ==
    ret.op = "IsBlocked" =>
        LET d == ret.arg
            n == ToLower(TrimSpace(d))
            Matches(s) ==
                \/ n = s
                \/ \E k \in 0..Len(n) : n = SubSeq(n, 1, k) \o <<".">> \o s IN
        /\ d = <<>> => ~ret.ok
        /\ d # <<>> =>
             (ret.ok <=> (n \in domains \/ \E s \in wildcards : Matches(s)))
        /\ (domains = {} /\ wildcards = {<<"a">>}) =>
             /\ d = <<"a">> => ret.ok
             /\ d = <<"x", ".", "a">> => ret.ok
             /\ d = <<"a", ".", "b", ".", "a">> => ret.ok
             /\ d = <<"a", "x">> => ~ret.ok
             /\ d = <<"n", "o", "t", "a">> => ~ret.ok

\* "nota" is not blocked while "*.a" is the only rule
C12_Witness ==
    /\ ret.op = "IsBlocked"
    /\ ret.arg = <<"n", "o", "t", "a">>
    /\ domains = {} /\ wildcards = {<<"a">>}
    /\ ~ret.ok

\* C13: AddDomain(raw) returns an error and leaves both rule sets unchanged
\* when the trimmed, lower-cased raw is "" or "*."; otherwise it returns no
\* error and adds the suffix after "*." to the wildcard set when the
\* normalized string begins with "*.", else the normalized string to the
\* exact set, and nothing else.
C13_AddDomainValidates ==
    [][(ret'.op = "AddDomain" /\ steps' = steps + 1) =>
         LET n == ToLower(TrimSpace(ret'.arg)) IN
         IF n = <<>> \/ n = <<"*", ".">>
         THEN /\ ret'.err # <<>>
              /\ domains' = domains
              /\ wildcards' = wildcards
         ELSE /\ ret'.err = <<>>
              /\ IF Len(n) >= 2 /\ n[1] = "*" /\ n[2] = "."
                 THEN /\ wildcards' = wildcards \cup {SubSeq(n, 3, Len(n))}
                      /\ domains' = domains
                 ELSE /\ domains' = domains \cup {n}
                      /\ wildcards' = wildcards]_vars

\* C14 as claimed: for a valid non-wildcard d and any prior rules,
\* IsBlocked(d) is true right after AddDomain(d) succeeds and false right
\* after the RemoveDomain(d) that follows it.
C14_RemovedIsUnblocked ==
    [][LET n == ToLower(TrimSpace(ret.arg))
           added == /\ ret.op = "AddDomain" /\ ret.err = <<>>
                    /\ n # <<>>
                    /\ ~(Len(n) >= 2 /\ n[1] = "*" /\ n[2] = ".") IN
       /\ added' => IsBlocked(ret.arg)'
       /\ (added /\ ret'.op = "RemoveDomain" /\ ret'.arg = ret.arg) =>
             ~IsBlocked(ret.arg)']_vars

\* C14 amended: for a valid non-wildcard d and any prior rules, IsBlocked(d)
\* is true right after AddDomain(d) succeeds; right after the RemoveDomain(d)
\* that follows it, d is no longer in the exact set and IsBlocked(d) is true
\* exactly when a stored wildcard suffix matches d.
C14_RemovedUnlessWildcard ==
    [][LET n == ToLower(TrimSpace(ret.arg))
           added == /\ ret.op = "AddDomain" /\ ret.err = <<>>
                    /\ n # <<>>
                    /\ ~(Len(n) >= 2 /\ n[1] = "*" /\ n[2] = ".")
           covered == \E s \in wildcards :
                         \/ n = s
                         \/ \E k \in 0..Len(n) :
                               n = SubSeq(n, 1, k) \o <<".">> \o s IN
       /\ added' => IsBlocked(ret.arg)'
       /\ (added /\ ret'.op = "RemoveDomain" /\ ret'.arg = ret.arg) =>
             /\ n \notin domains'
             /\ IsBlocked(ret.arg)' <=> covered']_vars

\* "x.a" was removed from the exact set and is still blocked by "*.a"
C14_Witness ==
    /\ ret.op = "RemoveDomain" /\ ret.arg = <<"x", ".", "a">>
    /\ ret.err = <<>>
    /\ <<"x", ".", "a">> \notin domains
    /\ wildcards = {<<"a">>}
    /\ IsBlocked(<<"x", ".", "a">>)

\* C15: for any rule state and any name d, IsBlocked answers the same for d,
\* for d in upper case, for d in lower case and for d surrounded by
\* whitespace; a rule added in any letter case blocks its name in either
\* letter case.
C15_CaseAndSpaceInsensitive ==
    LET Up(c) == CASE c = "a" -> "A"
                   [] c = "x" -> "X"
                   [] OTHER -> c
        Upper(s) == [i \in 1..Len(s) |-> Up(s[i])]
        d == ret.arg IN
    /\ ret.op = "IsBlocked" =>
         /\ ret.ok = IsBlocked(Upper(d))
         /\ ret.ok = IsBlocked(ToLower(d))
         /\ ret.ok = IsBlocked(<<" ">> \o d \o <<"\t">>)
    /\ (ret.op = "AddDomain" /\ ret.err = <<>>) =>
         /\ IsBlocked(Upper(d))
         /\ IsBlocked(ToLower(d))

\* C16: an AddDomain call that follows an AddDomain call whose input has
\* the same normalized value leaves the exact set, the wildcard set and
\* Count() as they were.
C16_AddDomainIdempotent ==
    [][(/\ ret.op = "AddDomain" /\ ret'.op = "AddDomain"
        /\ steps' = steps + 1
        /\ ToLower(TrimSpace(ret'.arg)) = ToLower(TrimSpace(ret.arg))) =>
          /\ domains' = domains
          /\ wildcards' = wildcards
          /\ BlacklistCount' = BlacklistCount]_vars

\* C17: RemoveDomain("") returns an error and changes nothing; any other
\* RemoveDomain(raw) returns no error and removes exactly the rule raw
\* denotes, the suffix from the wildcard set when the normalized raw begins
\* with "*." and else the normalized raw from the exact set, leaving the
\* other set and every other rule as they were, also when the rule is absent.
C17_RemoveDomainFrame ==
    [][(ret'.op = "RemoveDomain" /\ steps' = steps + 1) =>
         LET n == ToLower(TrimSpace(ret'.arg)) IN
         IF ret'.arg = <<>>
         THEN /\ ret'.err # <<>>
              /\ domains' = domains
              /\ wildcards' = wildcards
         ELSE /\ ret'.err = <<>>
              /\ IF Len(n) >= 2 /\ n[1] = "*" /\ n[2] = "."
                 THEN /\ wildcards' = wildcards \ {SubSeq(n, 3, Len(n))}
                      /\ domains' = domains
                 ELSE /\ domains' = domains \ {n}
                      /\ wildcards' = wildcards
              /\ BlacklistCount' \in {BlacklistCount, BlacklistCount - 1}]_vars

\* "*.A" was removed and the exact rule "a" is still there
C17_Witness ==
    /\ ret.op = "RemoveDomain" /\ ret.arg = <<"*", ".", "A">>
    /\ ret.err = <<>>
    /\ <<"a">> \in domains
    /\ <<"a">> \notin wildcards

\* C18: the count LoadFromHostsContent returns is the number of rules it
\* added: Count() after the call minus Count() before it, for any text and
\* any prior rules.
C18_ReturnsRulesAdded ==
    [][(ret'.op = "LoadFromHostsContent" /\ steps' = steps + 1) =>
          ret'.n = BlacklistCount' - BlacklistCount]_vars

\* C19: LoadFromHostsContent returns no error and adds exactly the second
\* fields, normalized, of the lines that are not blank, do not start with
\* "#", have at least two fields, have a dot in the second field and whose
\* second field AddDomain accepts; every other line adds nothing and stops
\* nothing. From the text with a comment, a blank line, a one-field line, a
\* dotless name and the rule "*." before the line " 1 a.b", only "a.b" is
\* added.
C19_SkipsMalformedLines ==
    [][(ret'.op = "LoadFromHostsContent" /\ steps' = steps + 1) =>
         LET lines == Split(ret'.arg, "\n")
             Good(l) ==
                 LET t == TrimSpace(l)
                     f == Fields(l) IN
                 /\ t # <<>>
                 /\ t[1] # "#"
                 /\ Len(f) >= 2
                 /\ \E k \in DOMAIN f[2] : f[2][k] = "."
                 /\ ToLower(f[2]) # <<"*", ".">>
             rules == { ToLower(Fields(lines[i])[2]) :
                          i \in { j \in DOMAIN lines : Good(lines[j]) } }
             wild == { r \in rules : Len(r) >= 2 /\ r[1] = "*" /\ r[2] = "." }
         IN
         /\ ret'.err = <<>>
         /\ domains' = domains \cup (rules \ wild)
         /\ wildcards' = wildcards \cup { SubSeq(r, 3, Len(r)) : r \in wild }
         /\ ret'.arg = HostsMalformed =>
               /\ domains' = domains \cup {<<"a", ".", "b">>}
               /\ wildcards' = wildcards]_vars

\* the good last line of the malformed text was ingested, nothing else
C19_Witness ==
    /\ ret.op = "LoadFromHostsContent" /\ ret.arg = HostsMalformed
    /\ ret.err = <<>> /\ ret.n = 1
    /\ domains = {<<"a", ".", "b">>}
    /\ wildcards = {}

----------------------------------------------------------------------------
(* Properties of the cache *)

\* C20: Get(d) returns the addresses of the most recent Set(d) when an
\* entry for d is in the map and at most ttl has passed since that Set, and
\* the absent result (nil) in every other case: for a key never set, cleared
\* or swept, and for an entry older than ttl that is still in the map. A Set
\* on an expired entry that was not purged starts a full ttl again.
C20_GetHonoursTTL ==
    [][(ret'.op = "Get" /\ steps' = steps + 1 /\ now' = now) =>
         LET d == ret'.arg IN
         IF /\ d \in DOMAIN entries
            /\ d \in DOMAIN lastSet
            /\ now - lastSet[d].at <= TTL
         THEN ret'.ips = lastSet[d].ips
         ELSE ret'.ips = [nil |-> TRUE, elems |-> <<>>]]_vars

\* Get("a") returned nil for an expired entry with an address that is still
\* in the map
C20_Witness ==
    /\ ret.op = "Get" /\ ret.arg = <<"a">>
    /\ <<"a">> \in DOMAIN entries
    /\ entries[<<"a">>].IPs = Slice(<<"9.9.9.9">>)
    /\ now - entries[<<"a">>].Timestamp > TTL
    /\ ret.ips = NilSlice

\* C21: Get(d) right after Set(d, ips) returns a present (non-nil) entry
\* with exactly the addresses ips, for every ips including one with zero
\* addresses, so that a stored empty answer differs from the nil of a key
\* without entry; the most recent Set wins, and a Set on a key that is in
\* the map leaves Count() as it was.
C21_RoundTrip ==
    [][/\ (/\ ret.op = "Set" /\ ret'.op = "Get" /\ ret'.arg = ret.arg
           /\ steps' = steps + 1 /\ now = lastSet[ret.arg].at) =>
             /\ ~ret'.ips.nil
             /\ ret'.ips.elems = lastSet[ret.arg].ips.elems
       /\ (/\ ret'.op = "Set" /\ steps' = steps + 1 /\ now' = now
           /\ ret'.arg \in DOMAIN entries) =>
             CacheCount' = CacheCount]_vars


\* C22: a CleanExpired() call removes exactly the entries whose age exceeds
\* the ttl at the moment of the call, leaves every other entry as it was,
\* and returns the number it removed, which is the drop of Count(); an entry
\* whose age equals the ttl is kept by CleanExpired and served by Get.
C22_CleanExpiredExact ==
    [][/\ (ret'.op = "CleanExpired" /\ steps' = steps + 1 /\ now' = now) =>
             /\ DOMAIN entries' =
                  { k \in DOMAIN entries : now - lastSet[k].at <= TTL }
             /\ \A k \in DOMAIN entries' : entries'[k] = entries[k]
             /\ ret'.n = CacheCount - CacheCount'
       /\ (/\ ret'.op = "Get" /\ steps' = steps + 1 /\ now' = now
           /\ ret'.arg \in DOMAIN entries
           /\ now - lastSet[ret'.arg].at = TTL) =>
             ret'.ips = lastSet[ret'.arg].ips]_vars

\* a CleanExpired() call removed an aged entry and kept one set after it
\* whose age is exactly the ttl
C22_Witness ==
    /\ ret.op = "CleanExpired"
    /\ ret.n = 1
    /\ \E k \in DOMAIN entries : now - entries[k].Timestamp = TTL


\* C23: while the cache has not been stopped, an entry whose age exceeds the
\* ttl is eventually removed from the map by the background sweep, with no
\* foreground call needed, given that the ticker keeps firing and the sweep
\* goroutine is scheduled; and a step of the background sweep removes no
\* entry that is still live.
C23_SweepRemovesExpired ==
    /\ [][(sweeper = "sweep" /\ sweeper' = "select") =>
            \A k \in DOMAIN entries \ DOMAIN entries' :
                now - lastSet[k].at > TTL]_vars
    /\ \A d \in CacheKeys :
           (d \in DOMAIN entries /\ now - entries[d].Timestamp > TTL)
             ~> \/ d \notin DOMAIN entries
                \/ now - entries[d].Timestamp <= TTL
                \/ stopChan = "closed"

\* the last foreground call was the Set of a key that the map no longer
\* holds, on a cache that was never stopped: the sweep removed the entry
C23_Witness ==
    /\ stopChan = "open"
    /\ ret.op = "Set"
    /\ ret.arg \notin DOMAIN entries

\* C24: once Stop() has been called on a cache, the cleanupLoop goroutine
\* eventually exits; a sweep in progress runs to its end before that; the
\* Stop() call returns without the goroutine having moved; and on a stopped
\* cache Set, Get, Count, Clear and CleanExpired do what they do on a
\* running one.
C24_StopOnce ==
    /\ (stopChan = "closed" /\ ~panicked) ~> (sweeper = "exited" \/ panicked)
    /\ [][/\ (sweeper = "sweep" /\ sweeper' # "sweep") =>
               /\ sweeper' = "select"
               /\ DOMAIN entries' =
                    { k \in DOMAIN entries : now - lastSet[k].at <= TTL }
          /\ (ret'.op = "Stop" /\ steps' = steps + 1 /\ now' = now) =>
               sweeper' = sweeper
          /\ (/\ stopChan = "closed" /\ ~panicked' /\ steps' = steps + 1
              /\ now' = now) =>
               LET d == ret'.arg IN
               /\ ret'.op = "Set" =>
                    /\ DOMAIN entries' = DOMAIN entries \cup {d}
                    /\ entries'[d] = [IPs |-> lastSet'[d].ips,
                                      Timestamp |-> now]
                    /\ \A k \in DOMAIN entries \ {d} :
                           entries'[k] = entries[k]
               /\ ret'.op = "Get" =>
                    /\ entries' = entries
                    /\ ret'.ips =
                         IF d \in DOMAIN entries /\ now - lastSet[d].at <= TTL
                         THEN lastSet[d].ips ELSE NilSlice
               /\ ret'.op = "Count" =>
                    /\ entries' = entries
                    /\ ret'.n = Cardinality(DOMAIN entries)
               /\ ret'.op = "Clear" => entries' = <<>>
               /\ ret'.op = "CleanExpired" =>
                    /\ DOMAIN entries' =
                         { k \in DOMAIN entries : now - lastSet[k].at <= TTL }
                    /\ \A k \in DOMAIN entries' : entries'[k] = entries[k]
                    /\ ret'.n = Cardinality(DOMAIN entries)
                                  - Cardinality(DOMAIN entries')]_vars

\* after one Stop() the goroutine has exited, and a Get on the stopped
\* cache has returned a stored value
C24_Witness ==
    /\ stopChan = "closed"
    /\ ~panicked
    /\ sweeper = "exited"
    /\ ret.op = "Get"
    /\ ~ret.ips.nil

\* C25: a second Stop() on the same cache does not crash the program and
\* reaches no error state.
C25_SecondStopIsSafe == ~panicked


\* C26: an AddServer call with an absent server (nil, or a nil *Server) or
\* with an empty name returns its invalid-argument error, and one with a
\* name already registered returns the conflict error; a RemoveServer call
\* with an empty name returns the invalid-argument error and one with a name
\* not registered the not-found error; each of these leaves the registry as
\* it was, so Count() and GetServer(name) answer as before. Every other
\* AddServer adds exactly its server under its name and every other
\* RemoveServer removes exactly the entry of its name.
C26_FailedMutationsKeepRegistry ==
    [][\A t \in Tasks :
         rq'[t] # rq[t] =>
           LET c == rq'[t]
               others == DOMAIN servers \ {c.name}
           IN
           /\ (c.op = "AddServer" /\ c.server.kind # "server") =>
                /\ ~panicked'
                /\ c.pc = "done"
                /\ c.err = ErrNilServer
                /\ servers' = servers
           /\ (/\ c.op \in { "AddServer", "RemoveServer" }
               /\ c.op = "AddServer" => c.server.kind = "server"
               /\ c.name = "") =>
                /\ c.pc = "done"
                /\ c.err = ErrEmptyName
                /\ servers' = servers
           /\ (c.pc = "done" /\ c.op = "AddServer" /\ c.name # "") =>
                IF c.name \in DOMAIN servers
                THEN c.err = ErrExists(c.name) /\ servers' = servers
                ELSE /\ c.err = NoErr
                     /\ DOMAIN servers' = DOMAIN servers \cup {c.name}
                     /\ servers'[c.name] = c.server.s
                     /\ \A n \in others : servers'[n] = servers[n]
           /\ (c.pc = "done" /\ c.op = "RemoveServer" /\ c.name # "") =>
                IF c.name \notin DOMAIN servers
                THEN c.err = ErrNotFound(c.name) /\ servers' = servers
                ELSE /\ c.err = NoErr
                     /\ DOMAIN servers' = others
                     /\ \A n \in others : servers'[n] = servers[n]
           /\ (c.pc = "done" /\ c.op = "GetServer") =>
                c.out = IF c.name \in DOMAIN servers
                        THEN <<servers[c.name]>> ELSE <<>>
           /\ (c.pc = "done" /\ c.op = "Count") =>
                c.n = Cardinality(DOMAIN servers)]_vars


\* C27: whatever the interleaving of the AddServer, RemoveServer and Clear
\* calls of concurrent tasks, every server in the registry is held under its
\* own name (so no name is held twice) and a Count() call returns the number
\* of distinct names held; when the tasks add servers with pairwise distinct
\* new names all the calls succeed and the registry grows by their number,
\* and when they add the same new name exactly one call succeeds and the
\* others return the conflict error.
C27_ConcurrentAdds ==
    /\ [](\A n \in DOMAIN servers : servers[n].Name = n)
    /\ [][\A t \in Tasks :
            (rq'[t] # rq[t] /\ rq'[t].pc = "done" /\ rq'[t].op = "Count") =>
               rq'[t].n = Cardinality({ servers[k].Name : k \in DOMAIN servers })
         ]_vars
    /\ [](LET Adding == { t \in Tasks : /\ rq[t].op = "AddServer"
                                        /\ rq[t].server.kind = "server"
                                        /\ rq[t].name # "" }
              Names == { rq[t].name : t \in Adding }
              Won == { t \in Adding : rq[t].err = NoErr }
          IN
          (/\ Adding = Tasks
           /\ steps = Cardinality(Tasks)
           /\ \A t \in Tasks : rq[t].pc = "done") =>
             /\ Cardinality(DOMAIN servers) = Cardinality(Names)
             /\ \A n \in Names :
                    Cardinality({ t \in Won : rq[t].name = n }) = 1
             /\ \A t \in Adding \ Won : rq[t].err = ErrExists(rq[t].name))

\* two tasks were inside AddServer for the same new name at the same time:
\* one has succeeded and the other has the conflict error
C27_Witness ==
    /\ steps = 2
    /\ \A t \in Tasks : /\ rq[t].pc = "done"
                        /\ rq[t].op = "AddServer"
                        /\ rq[t].name = "s1"
                        /\ rq[t].conc
    /\ rq["t1"].err = NoErr
    /\ rq["t2"].err = ErrExists("s1")


\* C28: a Clear() empties the registry in one step as seen by readers: no
\* GetAllServers, Count or GetServer call is inside its read section while
\* a Clear holds the lock, the registry does not change while a reader is
\* inside, the step with which a Clear gives up the lock leaves the registry
\* empty, and a reader returns the content the registry had while it read;
\* so a reader concurrent with a Clear sees all the servers held before the
\* clear or none, never a part of them.
C28_ClearIsAtomic ==
    /\ [](mu.registry.w # "" => mu.registry.r = {})
    /\ [][/\ mu.registry.r # {} => servers' = servers
          /\ \A t \in Tasks :
               /\ (/\ rq[t].op = "Clear" /\ rq[t].pc = "held"
                   /\ rq'[t].pc # "held") => servers' = <<>>
               /\ (/\ rq[t].op = "Clear" /\ rq[t].pc = "held"
                   /\ rq'[t].pc = "held") => servers' = servers
               /\ (rq[t].pc = "held" /\ rq'[t].pc = "done") =>
                    /\ rq[t].op = "GetAllServers" =>
                         /\ { rq'[t].out[i] : i \in 1..Len(rq'[t].out) }
                              = { servers[n] : n \in DOMAIN servers }
                         /\ Len(rq'[t].out) = Cardinality(DOMAIN servers)
                    /\ rq[t].op = "Count" =>
                         rq'[t].n = Cardinality(DOMAIN servers)
                    /\ rq[t].op = "GetServer" =>
                         rq'[t].out = IF rq[t].name \in DOMAIN servers
                                      THEN <<servers[rq[t].name]>>
                                      ELSE <<>>]_vars

\* a GetAllServers call that ran while a Clear call was in progress has
\* returned both servers held before the clear, and the registry is empty
C28_Witness ==
    /\ rq["t1"].op = "GetAllServers"
    /\ rq["t1"].pc = "done"
    /\ rq["t1"].conc
    /\ Len(rq["t1"].out) = 2
    /\ rq["t2"].op = "Clear"
    /\ rq["t2"].pc = "done"
    /\ rq["t2"].conc
    /\ servers = <<>>


\* C29: whatever the interleaving of the concurrent Lookups, the cursor
\* stands as many above its start value 0 as there were round-robin
\* selections, each selection got a cursor value of its own, and a Lookup
\* that is at the selection can make it whatever the other tasks are doing.
C29_CursorIncrementAtomic ==
    /\ serverIndex = [hi |-> 0, lo |-> Len(rrLog)]
    /\ \A i, j \in 1..Len(rrLog) :
           rrLog[i].cursor = rrLog[j].cursor => i = j
    /\ \A t, u \in Tasks :
           (/\ t # u
            /\ q[t].mode = "rr" /\ q[t].pc \in { "attempt", "store", "done" }
            /\ q[u].mode = "rr" /\ q[u].pc \in { "attempt", "store", "done" }
            /\ Len(q[t].snapshot) > 0 /\ Len(q[u].snapshot) > 0) =>
              q[t].cursor # q[u].cursor
    /\ \A t \in Tasks : q[t].pc = "rr" => ENABLED lookupRoundRobin(t)

\* both tasks are in their upstream attempts after two selections, and
\* the cursor stands at 2
C29_Witness ==
    /\ \A t \in Tasks : q[t].pc = "attempt" /\ q[t].mode = "rr"
    /\ q["t1"].cursor # q["t2"].cursor
    /\ serverIndex = [hi |-> 0, lo |-> 2]


\* C30: a task whose Lookup is in an upstream attempt holds none of the
\* locks of the registry, the blacklist and the cache, and while it is
\* there the other task can take the next step of its own Lookup or of its
\* registry call, and a blacklist or cache call can be made, without
\* waiting for the attempt to end.
C30_AttemptHoldsNoLock ==
    \A t \in Tasks :
        q[t].pc = "attempt" =>
          /\ \A l \in DOMAIN mu : mu[l].w # t /\ t \notin mu[l].r
          /\ \A u \in Tasks \ {t} :
               /\ q[u].pc \in { "blacklist", "cache", "snapshot", "mode",
                                "rr", "attempt", "store" } =>
                    ENABLED LookupStep(u)
               /\ rq[u].pc \in { "wait", "held" } => ENABLED ConcCallStep(u)
          /\ steps < MaxSteps =>
               /\ ENABLED (\E d \in RuleInputs : AddDomain(d))
               /\ ENABLED Set(<<"a">>, Slice(<<"9.9.9.9">>))

\* one task is in the upstream attempt of its Lookup while the other is
\* inside Registry.Clear with the write lock of the registry
C30_Witness ==
    /\ q["t1"].pc = "attempt"
    /\ rq["t2"].op = "Clear"
    /\ rq["t2"].pc = "held"
    /\ mu.registry.w = "t2"


\* C31: Lookups of the same name that overlap are not coalesced: each task
\* that is inside Lookup can take its next step whatever the other one is
\* doing, a Lookup that returns a fresh answer has taken a snapshot of its
\* own and got the answer from an upstream attempt of its own, it has written
\* the cache if the answer is not empty, and each such write replaces the
\* entry that was there, so the entry left is that of the last write.
C31_NoCoalescing ==
    /\ [](\A t \in Tasks :
            /\ (/\ \A u \in Tasks :
                     /\ q[u].pc \in { "blacklist", "cache", "snapshot", "mode",
                                      "rr", "attempt", "store" }
                     /\ q[u].domain = q[t].domain) =>
                 ENABLED LookupStep(t)
            /\ (q[t].pc = "done" /\ q[t].site = "ResolvedFresh") =>
                 /\ q[t].snap
                 /\ q[t].attempts # <<>>
                 /\ LET last == q[t].attempts[Len(q[t].attempts)] IN
                    last.ok /\ last.ips = q[t].ips
                 /\ Len(q[t].ips.elems) > 0 => q[t].stored)
    /\ [][\A t \in Tasks :
            (q[t].pc = "store" /\ q'[t].pc = "done") =>
               /\ DOMAIN entries' = DOMAIN entries \cup {q[t].domain}
               /\ entries'[q[t].domain] =
                    [IPs |-> q[t].ips, Timestamp |-> now]]_vars

\* two Lookups of the same name that were in flight together have both
\* made an upstream attempt and both written the cache
C31_Witness ==
    /\ \A t \in Tasks : /\ q[t].pc \in { "store", "done" }
                        /\ q[t].domain = <<"a">>
                        /\ q[t].site \in { "", "ResolvedFresh" }
                        /\ Len(q[t].attempts) > 0
    /\ q["t1"].pc = "done" /\ q["t1"].stored
    /\ q["t2"].pc = "store"
    /\ <<"a">> \in DOMAIN entries

----------------------------------------------------------------------------
(* Properties of the protocol server *)

\* C32: for each question the protocol server strips the trailing root dot
\* from the name, calls Lookup once, and answers with exactly one record per
\* returned address whose family matches the question type (IPv4 addresses
\* as A records for type-A questions, IPv6 addresses as AAAA records for
\* type-AAAA questions), in the order returned, under the name of the
\* question; the reply has no answers and no error code when Lookup fails
\* or when the type is neither A nor AAAA; a type-A question for a blocked
\* domain is answered with the one record 0.0.0.0 and a type-AAAA question
\* with the one record ::.  The family of an address is the one net.IP
\* gives it: the IPv4-mapped literal ::ffff:1.2.3.4 counts as the IPv4
\* address 1.2.3.4, a string that is no address has no family.
C32_Answers ==
    /\ [](LET V4 == { "0.0.0.0", "1.2.3.4", "9.9.9.9", "::ffff:1.2.3.4" }
              V6 == { "::", "::1" }
              Shown(ip) == IF ip = "::ffff:1.2.3.4" THEN "1.2.3.4" ELSE ip
              Matching(ips, qtype) ==
                  SelectSeq(ips, LAMBDA ip : \/ qtype = "A" /\ ip \in V4
                                             \/ qtype = "AAAA" /\ ip \in V6)
              Expected(name, qtype, ips) ==
                  LET m == Matching(ips, qtype) IN
                  [i \in 1..Len(m) |->
                      [Name |-> name, Rrtype |-> qtype, Class |-> "IN",
                       Ttl |-> 300, Data |-> Shown(m[i])]]
          IN
          hq.pc \in { "reply", "written" } =>
            /\ hq.rcode = "NOERROR"
            /\ hq.qtype \notin { "A", "AAAA" } =>
                 hq.answers = <<>> /\ hq.ips = NilSlice /\ hq.err = NoErr
            /\ hq.err # NoErr => hq.answers = <<>>
            /\ (hq.qtype \in { "A", "AAAA" } /\ hq.err = NoErr) =>
                 hq.answers = Expected(hq.name, hq.qtype, hq.ips.elems))
    /\ [][/\ (q["t1"].pc = "idle" /\ q'["t1"].pc # "idle") =>
               /\ hq.pc = "lookup" /\ hq' = hq
               /\ hq.qtype \in { "A", "AAAA" }
               /\ \/ hq.name = q'["t1"].domain \o <<".">>
                  \/ /\ hq.name = q'["t1"].domain
                     /\ (hq.name = <<>> \/ hq.name[Len(hq.name)] # ".")
          /\ (hq.pc = "lookup" /\ q["t1"].pc # "idle") =>
               \/ q'["t1"].pc # "idle" /\ hq' = hq
               \/ /\ q["t1"].pc = "done" /\ hq'.pc = "reply"
                  /\ hq'.ips = q["t1"].ips /\ hq'.err = q["t1"].err
                  /\ q["t1"].site = "Blocked" =>
                       hq'.answers =
                         << [Name |-> hq.name, Rrtype |-> hq.qtype,
                             Class |-> "IN", Ttl |-> 300,
                             Data |-> IF hq.qtype = "A" THEN "0.0.0.0"
                                      ELSE "::"] >>
          /\ (hq'.pc = "reply" /\ hq.pc = "lookup") => q["t1"].pc = "done"
         ]_vars

\* a type-A question "a." has been answered from the addresses 1.2.3.4 and
\* ::1 of an upstream server with the one record 1.2.3.4
C32_Witness ==
    /\ hq.pc = "written"
    /\ hq.name = <<"a", ".">>
    /\ hq.domain = <<"a">>
    /\ hq.qtype = "A"
    /\ hq.ips = Slice(<<"1.2.3.4", "::1">>)
    /\ Len(hq.answers) = 1
    /\ hq.answers[1].Data = "1.2.3.4"

\* C33: once Start of one DNSServer has returned nil, a Start of a second
\* DNSServer on the same address that is called later returns an error,
\* however the listener goroutine of the first is scheduled; and a server
\* whose Start returned nil is bound to the address or will be (its
\* listener has not given up)
C33_SecondStartFails ==
    \A d \in DNSServers :
        /\ (srv[d].after # {} /\ srv[d].pc # "new") => srv[d].pc # "started"
        /\ srv[d].pc = "started" => srv[d].lis \in { "spawned", "serving" }

\* C34: a Lookup that ends as InvalidArgument, Blocked, CacheHit or
\* NoUpstreamAvailable has made no upstream attempt, and none of its steps
\* has written to the cache or advanced the round-robin cursor; a Lookup
\* that ends as UpstreamExhausted has written nothing to the cache (the only
\* step of a Lookup that writes to the cache ends it as ResolvedFresh); a
\* Lookup in fallback mode never advances the cursor; and no step of a
\* Lookup changes the registry or the blacklist
C34_LookupFrame ==
    /\ [](\A t \in Seq1 :
            /\ (q[t].pc = "done" /\ q[t].site \in { "InvalidArgument",
                      "Blocked", "CacheHit", "NoUpstreamAvailable" }) =>
                 q[t].attempts = <<>> /\ ~q[t].stored /\ q[t].mode = ""
            /\ (q[t].pc = "done" /\ q[t].site = "UpstreamExhausted") =>
                 ~q[t].stored
            /\ q[t].pc \in { "rr", "attempt", "store" } => q[t].mode # "")
    /\ [][\A t \in Seq1 : q'[t] # q[t] =>
            /\ servers' = servers
            /\ domains' = domains
            /\ wildcards' = wildcards
            /\ q[t].mode = "" =>
                 entries' = entries /\ serverIndex' = serverIndex
            /\ q[t].mode = "fallback" => serverIndex' = serverIndex
            /\ entries' # entries =>
                 q'[t].pc = "done" /\ q'[t].site = "ResolvedFresh"
            /\ (q'[t].pc = "done" /\ q'[t].site # "ResolvedFresh") =>
                 entries' = entries /\ serverIndex' = serverIndex
         ]_vars

\* a Lookup has been answered from the cache after an earlier one had
\* advanced the cursor and stored its answer; the cursor and the entry are
\* as that one left them
C34_Witness ==
    /\ q["t1"].pc = "done"
    /\ q["t1"].site = "CacheHit"
    /\ serverIndex = [hi |-> 0, lo |-> 1]
    /\ <<"a">> \in DOMAIN entries
    /\ entries[<<"a">>].IPs = q["t1"].ips

\* C35: in every reachable state of the blacklist every entry of the exact
\* set is a non-empty, trimmed, lowercase string that does not begin with
\* "*.", and every entry of the wildcard set is a non-empty, trimmed,
\* lowercase suffix
C35_RuleSetsNormalized ==
    /\ \A d \in domains :
         /\ d # <<>>
         /\ TrimSpace(d) = d
         /\ ToLower(d) = d
         /\ ~HasPrefix(d, <<"*", ".">>)
    /\ \A w \in wildcards :
         /\ w # <<>>
         /\ TrimSpace(w) = w
         /\ ToLower(w) = w

\* C36: with M >= 2 servers registered and the registry unchanged, of two
\* consecutive sequential round-robin queries that each succeed on their
\* first attempt the second first-attempts another server than the first
\* (for M = 2: the two queries first-attempt each server exactly once),
\* whatever order GetAllServers returns on each call
C36_SpreadsOverServers ==
    \A t, u \in Tasks :
        (/\ q[t].pc = "done" /\ q[u].pc = "done"
         /\ q[t].mode = "rr" /\ q[u].mode = "rr"
         /\ q[u].cursor = AddUint32(q[t].cursor)
         /\ Len(q[t].attempts) = 1 /\ q[t].attempts[1].ok
         /\ Len(q[u].attempts) = 1 /\ q[u].attempts[1].ok
         /\ Len(q[t].snapshot) >= 2) =>
            q[t].attempts[1].server # q[u].attempts[1].server

C38_RotatesAcrossWrap ==
    \A k \in DOMAIN rrLog :
        (k > 1 /\ rrLog[k - 1].n = rrLog[k].n) =>
            rrLog[k].start = (rrLog[k - 1].start + 1) % rrLog[k].n

\* C39: each Lookup works on one snapshot of the registry, taken once and
\* after the cache miss: the snapshot holds every server registered at that
\* moment exactly once and is not changed afterwards; the Lookup attempts
\* only servers of the snapshot, and every index it computes lies in
\* 0..M-1 for the length M of the snapshot; so a server added later is not
\* attempted, and a server removed or cleared later can still be
C39_OneSnapshot ==
    /\ [](\A t \in Seq1 :
            LET rec == q[t]
                M == Len(rec.snapshot) IN
            /\ ~rec.snap => rec.snapshot = <<>> /\ rec.attempts = <<>>
            /\ rec.snap => (hasCache => rec.got)
            /\ \A i, j \in 1..M : rec.snapshot[i] = rec.snapshot[j] => i = j
            /\ rec.pc \in { "rr", "attempt", "store" } => M >= 1
            /\ (rec.mode = "rr" /\ rec.pc \in { "attempt", "store", "done" })
                  => rec.index \in 0..(M - 1)
            /\ \A k \in DOMAIN rec.attempts :
                 /\ rec.attempts[k].idx \in 0..(M - 1)
                 /\ rec.attempts[k].server \in
                       { rec.snapshot[i].Name : i \in 1..M })
    /\ [][\A t \in Seq1 :
            /\ (~q[t].snap /\ q'[t].snap) =>
                 /\ q[t].pc = "snapshot"
                 /\ { q'[t].snapshot[i] : i \in 1..Len(q'[t].snapshot) } =
                       { servers[n] : n \in DOMAIN servers }
                 /\ Len(q'[t].snapshot) = Cardinality(DOMAIN servers)
            /\ (q[t].snap /\ q'[t].pc # "idle") =>
                 q'[t].snapshot = q[t].snapshot
         ]_vars

\* a server removed after the snapshot has been attempted, while a server
\* added after the snapshot is registered and not part of it
C39_Witness ==
    /\ q["t1"].pc \in { "attempt", "store", "done" }
    /\ Len(q["t1"].snapshot) = 1
    /\ Len(q["t1"].attempts) = 1
    /\ q["t1"].attempts[1].server = "s1"
    /\ DOMAIN servers = { "s2" }

\* C40: no task or goroutine (a Lookup, a call on the registry, the
\* blacklist or the cache, the background sweep) ever holds more than one
\* of the three locks, and it holds none when its operation has returned
\* or is between two steps of a Lookup; whenever an operation has begun
\* and not returned, some operation that has begun can take a step (no
\* deadlock); and under fair scheduling every Get and Set, called directly
\* or by a Lookup, gets the cache lock, while the sweep takes the lock
\* again and again
C40_LockDiscipline ==
    /\ [](/\ \A a \in Tasks \cup { "sweep" } : Cardinality(HeldBy(a)) <= 1
          /\ \A t \in Tasks :
               /\ rq[t].pc # "held" => HeldBy(t) = {}
               /\ rq[t].pc = "held" =>
                    HeldBy(t) = { IF rq[t].op \in { "Get", "Set" }
                                  THEN "cache"
                                  ELSE IF rq[t].op = "AddDomain"
                                  THEN "blacklist" ELSE "registry" }
          /\ sweeper # "locked" => HeldBy("sweep") = {}
          /\ (\/ \E t \in Tasks : rq[t].pc \in { "wait", "held" }
              \/ \E t \in Tasks : q[t].pc \notin { "idle", "done" }
              \/ sweeper \in { "sweep", "locked" }) =>
                ENABLED (\/ Direct_Lock("t2")
                         \/ Direct_Return("t2")
                         \/ Registry_LockOf("t2")
                         \/ Registry_AddServer("t2")
                         \/ LookupStep("t1")
                         \/ Sweep_Lock
                         \/ Sweep_Return))
    /\ (rq["t2"].pc = "wait" /\ rq["t2"].op \in { "Get", "Set" }) ~>
          (rq["t2"].pc = "held" /\ HeldBy("t2") = { "cache" })
    /\ (q["t1"].pc \in { "cache", "store" }) ~>
          (q["t1"].pc \notin { "cache", "store" })
    /\ []<>(sweeper = "locked")

\* the sweep holds the cache lock while a Set called directly waits for it
\* and a Lookup stands before its Set
C40_Witness ==
    /\ sweeper = "locked"
    /\ mu.cache.w = "sweep"
    /\ rq["t2"].pc = "wait" /\ rq["t2"].op = "Set"
    /\ q["t1"].pc = "store"

====
